---- MODULE Spec2Model ----
(***************************************************************************)
(* A model of the yt-dlp networking core: ImpersonateTarget matching and   *)
(* resolution (networking/impersonate.py), the requests-backed request     *)
(* handler RequestsRH (networking/_requests.py), and the handler selection  *)
(* of the request director.                                                 *)
(*                                                                          *)
(* Python values are records carrying a "type" field, so that isinstance,   *)
(* "is None" and truthiness are decided as Python decides them.  Strings    *)
(* that are compared only for equality are sequences of characters.         *)
(***************************************************************************)
EXTENDS Integers, Sequences, FiniteSets, TLC

VARIABLES
    call,        \* the call under way: its operation and its arguments
    last,        \* the record of the last completed call: its inputs and its result
    instances,   \* RequestsRH._instances: the (key, session) entries of the session cache
    handlers,    \* the director's registered handlers, in registration order
    sessions,    \* every session _create_instance has built, in order of creation
    threads,     \* the position of each thread that calls send on the handler
    used         \* the sends completed: the request's cookiejar and the session used

vars == <<call, last, instances, handlers, sessions, threads, used>>

(***************************************************************************)
(* Python values                                                           *)
(***************************************************************************)

\* Optional[str] fields: None is a one-element tuple that is no string of characters.
None == <<"None">>

\* The object None (a request without a target, a missing default).
PyNone == [type |-> "NoneType"]

Chrome  == <<"c", "h", "r", "o", "m", "e">>
Safari  == <<"s", "a", "f", "a", "r", "i">>
V110    == <<"1", "1", "0">>
V99     == <<"9", "9">>
Windows == <<"w", "i", "n">>
MacOS   == <<"m", "a", "c">>
OsV10   == <<"1", "0">>
OsV14   == <<"1", "4">>

ClientVals  == {None, Chrome, Safari}
VersionVals == {None, V110, V99}
OsVals      == {None, Windows, MacOS}
OsVersVals  == {None, OsV10, OsV14}

(***************************************************************************)
(* ImpersonateTarget                                                       *)
(***************************************************************************)

ImpersonateTarget(client, version, os, os_vers) ==
    [type |-> "ImpersonateTarget", client |-> client, version |-> version,
     os |-> os, os_vers |-> os_vers]

Targets ==
    { ImpersonateTarget(c, v, o, ov) :
        c \in ClientVals, v \in VersionVals, o \in OsVals, ov \in OsVersVals }

\* A value that is no ImpersonateTarget: the target given as a bare string.
StrValue(s) == [type |-> "str", value |-> s]

NonTargets == {StrValue(Chrome), PyNone}

\* A mutation of __contains__: a None in the argument no longer matches any value.
ContainsOneSided(self, target) ==
    IF target.type # "ImpersonateTarget" THEN FALSE
    ELSE /\ (self.client = None \/ self.client = target.client)
         /\ (self.version = None \/ self.version = target.version)
         /\ (self.os = None \/ self.os = target.os)
         /\ (self.os_vers = None \/ self.os_vers = target.os_vers)

\* A mutation of __contains__: None is no wildcard, each field has to be equal.
ContainsStrict(self, target) ==
    IF target.type # "ImpersonateTarget" THEN FALSE
    ELSE /\ self.client = target.client
         /\ self.version = target.version
         /\ self.os = target.os
         /\ self.os_vers = target.os_vers

\* A mutation of __contains__: only a None in the argument is a wildcard, so a
\* target is in no target that gives fewer fields.
ContainsArgumentSided(self, target) ==
    IF target.type # "ImpersonateTarget" THEN FALSE
    ELSE /\ (target.client = None \/ self.client = target.client)
         /\ (target.version = None \/ self.version = target.version)
         /\ (target.os = None \/ self.os = target.os)
         /\ (target.os_vers = None \/ self.os_vers = target.os_vers)

\* ImpersonateTarget.__contains__: `target in self`.
Contains(self, target) ==
    IF target.type # "ImpersonateTarget" THEN FALSE
    ELSE /\ (self.client = None \/ target.client = None \/ self.client = target.client)
         /\ (self.version = None \/ target.version = None \/ self.version = target.version)
         /\ (self.os = None \/ target.os = None \/ self.os = target.os)
         /\ (self.os_vers = None \/ target.os_vers = None \/ self.os_vers = target.os_vers)

(***************************************************************************)
(* Requests and their extensions                                           *)
(***************************************************************************)

\* request.extensions is a dict: a function from the keys present to their values.
Get(extensions, key) ==
    IF key \in DOMAIN extensions THEN extensions[key] ELSE PyNone

\* dict.pop(key, None) on the handler's copy of the extensions.
Pop(extensions, key) ==
    [k \in (DOMAIN extensions) \ {key} |-> extensions[k]]

CookieJar(id, count) == [type |-> "CookieJar", id |-> id, count |-> count]

Float(v) == [type |-> "float", value |-> v]

\* Python truthiness, as `or` uses it: None, 0 and an empty container are falsy;
\* ImpersonateTarget defines neither __bool__ nor __len__, so it is always truthy.
Truthy(v) ==
    CASE v.type = "NoneType" -> FALSE
      [] v.type = "float" -> v.value # 0
      [] v.type = "CookieJar" -> v.count # 0
      [] OTHER -> TRUE

\* The Python expression `a or b`.
Or(a, b) == IF Truthy(a) THEN a ELSE b

(***************************************************************************)
(* ImpersonateRequestHandler                                               *)
(***************************************************************************)

\* An impersonation-capable handler: the keys of its
\* _SUPPORTED_IMPERSONATE_TARGET_MAP in declared order, and its default target.
ImpersonateRH(name, supported, impersonate) ==
    [kind |-> "impersonate", name |-> name, supported |-> supported,
     impersonate |-> impersonate]

\* ImpersonateRequestHandler.supported_targets
supported_targets(rh) == rh.supported

RECURSIVE ScanFirst(_, _, _)
\* The for loop of _resolve_target from index i on: the first supported target
\* the requested one is `in`, None when the loop ends without a return.
ScanFirst(supported, target, i) ==
    IF i > Len(supported) THEN PyNone
    ELSE IF Contains(supported[i], target) THEN supported[i]
    ELSE ScanFirst(supported, target, i + 1)

RECURSIVE ScanLast(_, _, _)
ScanLast(supported, target, i) ==
    IF i < 1 THEN PyNone
    ELSE IF Contains(supported[i], target) THEN supported[i]
    ELSE ScanLast(supported, target, i - 1)

\* A mutation of _resolve_target: the last matching supported target wins.
ResolveTargetLast(rh, target) ==
    IF target = PyNone THEN PyNone
    ELSE ScanLast(supported_targets(rh), target, Len(supported_targets(rh)))

\* The number of fields of a target that are not None.
Specificity(t) ==
    Cardinality({ f \in {"client", "version", "os", "os_vers"} : t[f] # None })

\* A mutation of _resolve_target: of the supported targets the requested one
\* is in, one with the fewest fields given is returned.
ResolveTargetLeastSpecific(rh, target) ==
    IF target = PyNone THEN PyNone
    ELSE IF ScanFirst(supported_targets(rh), target, 1) = PyNone THEN PyNone
    ELSE LET matching == { i \in 1..Len(supported_targets(rh)) :
                            Contains(supported_targets(rh)[i], target) }
         IN  supported_targets(rh)[
                CHOOSE i \in matching :
                    \A j \in matching :
                        \/ Specificity(supported_targets(rh)[i])
                              < Specificity(supported_targets(rh)[j])
                        \/ /\ Specificity(supported_targets(rh)[i])
                                 = Specificity(supported_targets(rh)[j])
                           /\ i <= j]

\* ImpersonateRequestHandler._resolve_target
ResolveTarget(rh, target) ==
    IF target = PyNone THEN PyNone
    ELSE ScanFirst(supported_targets(rh), target, 1)

\* ImpersonateRequestHandler.is_supported_target
is_supported_target(rh, target) ==
    IF target.type # "ImpersonateTarget" THEN "AssertionError"
    ELSE IF ResolveTarget(rh, target) # PyNone THEN "True" ELSE "False"

\* A mutation of _check_impersonate_target: a handler that declares no targets
\* is no longer exempt from the check.
CheckImpersonateTargetNoExempt(rh, target) ==
    IF target.type \notin {"ImpersonateTarget", "NoneType"} THEN "AssertionError"
    ELSE IF target = PyNone THEN "ok"
    ELSE IF is_supported_target(rh, target) = "False" THEN "UnsupportedRequest"
    ELSE "ok"

\* ImpersonateRequestHandler._check_impersonate_target: "ok" when it returns.
CheckImpersonateTarget(rh, target) ==
    IF target.type \notin {"ImpersonateTarget", "NoneType"} THEN "AssertionError"
    ELSE IF target = PyNone \/ Len(supported_targets(rh)) = 0 THEN "ok"
    ELSE IF is_supported_target(rh, target) = "False" THEN "UnsupportedRequest"
    ELSE "ok"

\* ImpersonateRequestHandler._get_request_target
GetRequestTarget(rh, request) ==
    Or(Get(request.extensions, "impersonate"), rh.impersonate)

\* ImpersonateRequestHandler._get_mapped_request_target: the supported target
\* whose mapped value is returned (None when nothing resolves).
GetMappedRequestTarget(rh, request) ==
    ResolveTarget(rh, GetRequestTarget(rh, request))

\* A mutation of impersonate_preference: the handler's own default target is
\* not looked at.
impersonate_preference_request_only(rh, request) ==
    IF Get(request.extensions, "impersonate") # PyNone THEN 1000 ELSE 0

\* impersonate_preference
impersonate_preference(rh, request) ==
    IF Get(request.extensions, "impersonate") # PyNone \/ rh.impersonate # PyNone
    THEN 1000
    ELSE 0

(***************************************************************************)
(* Validation                                                              *)
(***************************************************************************)

\* RequestsRH: its default cookiejar and default timeout.
RequestsRH(cookiejar, timeout) ==
    [kind |-> "requests", name |-> "requests", cookiejar |-> cookiejar,
     timeout |-> timeout]

\* RequestsRH._SUPPORTED_URL_SCHEMES
SUPPORTED_URL_SCHEMES == {"http", "https"}

\* RequestsRH._SUPPORTED_PROXY_SCHEMES
SUPPORTED_PROXY_SCHEMES == {"http", "https", "socks4", "socks4a", "socks5", "socks5h"}

\* A mutation of RequestsRH._check_extensions: the impersonate key is popped too,
\* as an impersonation-capable handler pops it.
RequestsCheckExtensionsPopsImpersonate(extensions) ==
    Pop(Pop(Pop(extensions, "cookiejar"), "timeout"), "impersonate")

\* RequestsRH._check_extensions: the keys left in the copy once the supported
\* ones are popped.
RequestsCheckExtensions(extensions) ==
    Pop(Pop(extensions, "cookiejar"), "timeout")

\* ImpersonateRequestHandler._check_extensions: the result of the target check
\* when the impersonate key is present.
ImpersonateCheckExtensions(rh, extensions) ==
    IF "impersonate" \in DOMAIN extensions
    THEN CheckImpersonateTarget(rh, Get(extensions, "impersonate"))
    ELSE "ok"

\* The _check_extensions of a concrete impersonation-capable handler: the keys it
\* pops after the check of ImpersonateRequestHandler.
ConcreteImpersonatePops(extensions) ==
    Pop(Pop(Pop(extensions, "impersonate"), "cookiejar"), "timeout")

\* RequestHandler._validate: the scheme check, the proxy check, then the
\* extensions: the handler pops the keys it supports from a copy, and any key
\* left is unsupported.
BaseValidate(rh, request) ==
    IF request.scheme \notin SUPPORTED_URL_SCHEMES THEN "UnsupportedRequest"
    ELSE IF request.proxy # "none" /\ request.proxy \notin SUPPORTED_PROXY_SCHEMES
         THEN "UnsupportedRequest"
    ELSE IF rh.kind = "requests"
         THEN IF DOMAIN RequestsCheckExtensions(request.extensions) # {}
              THEN "UnsupportedRequest" ELSE "ok"
    ELSE IF ImpersonateCheckExtensions(rh, request.extensions) # "ok"
         THEN ImpersonateCheckExtensions(rh, request.extensions)
    ELSE IF DOMAIN ConcreteImpersonatePops(request.extensions) # {}
         THEN "UnsupportedRequest" ELSE "ok"

\* validate(request) of a handler; ImpersonateRequestHandler._validate checks
\* the handler's own default target after the checks of the base class.
Validate(rh, request) ==
    IF rh.kind = "requests" THEN BaseValidate(rh, request)
    ELSE IF BaseValidate(rh, request) # "ok" THEN BaseValidate(rh, request)
    ELSE CheckImpersonateTarget(rh, rh.impersonate)

\* requests_preference
requests_preference(rh, request) == 100

(***************************************************************************)
(* The director: handler selection                                         *)
(***************************************************************************)

\* The sum of the registered preference functions that apply to the handler.
Preference(rh, request) ==
    IF rh.kind = "requests" THEN requests_preference(rh, request)
    ELSE impersonate_preference(rh, request)

Eligible(registry, request) ==
    { i \in 1..Len(registry) : Validate(registry[i], request) = "ok" }

RECURSIVE ScanBest(_, _, _, _)
\* The scan over the registry in registration order from index i on, `best` being
\* the index selected so far: a later handler replaces it only with a strictly
\* higher preference.
ScanBest(registry, request, i, best) ==
    IF i > Len(registry) THEN best
    ELSE IF i \notin Eligible(registry, request)
         THEN ScanBest(registry, request, i + 1, best)
    ELSE IF best = 0 \/ Preference(registry[i], request) > Preference(registry[best], request)
         THEN ScanBest(registry, request, i + 1, i)
    ELSE ScanBest(registry, request, i + 1, best)

RECURSIVE ScanBestLast(_, _, _, _)
ScanBestLast(registry, request, i, best) ==
    IF i > Len(registry) THEN best
    ELSE IF i \notin Eligible(registry, request)
         THEN ScanBestLast(registry, request, i + 1, best)
    ELSE IF best = 0 \/ Preference(registry[i], request) >= Preference(registry[best], request)
         THEN ScanBestLast(registry, request, i + 1, i)
    ELSE ScanBestLast(registry, request, i + 1, best)

\* A mutation of the selection: among equal scores the last registered wins.
SelectLastOnTie(registry, request) == ScanBestLast(registry, request, 1, 0)

\* A mutation of the selection: with no eligible handler the first registered
\* one is handed the request all the same.
SelectFirstWhenNoneEligible(registry, request) ==
    IF ScanBest(registry, request, 1, 0) = 0 /\ Len(registry) > 0 THEN 1
    ELSE ScanBest(registry, request, 1, 0)

\* A mutation of the selection: the first handler whose validate raises ends
\* the scan, and its UnsupportedRequest is what the caller gets.
SelectStopsAtFirstRefusal(registry, request) ==
    IF \E i \in 1..Len(registry) :
          /\ i \notin Eligible(registry, request)
          /\ i < ScanBest(registry, request, 1, 0)
    THEN 0
    ELSE ScanBest(registry, request, 1, 0)

\* The index of the handler that serves the request, 0 when none is eligible.
Select(registry, request) == ScanBest(registry, request, 1, 0)

(***************************************************************************)
(* Inputs                                                                  *)
(***************************************************************************)

MaxSupported == 2
MaxHandlers == 2

AnyTarget == ImpersonateTarget(None, None, None, None)

\* The targets a handler may declare as supported.
SupportedPool ==
    { ImpersonateTarget(Chrome, None, None, None),
      ImpersonateTarget(Chrome, V110, None, None),
      ImpersonateTarget(Safari, None, None, None),
      AnyTarget }

\* The keys of a dict are distinct: the maps are the sequences without repetition.
SupportedMaps ==
    UNION { { m \in [1..n -> SupportedPool] : \A i, j \in 1..n : m[i] = m[j] => i = j }
            : n \in 0..MaxSupported }

DefaultTargets == {PyNone, AnyTarget, ImpersonateTarget(Safari, None, None, None)}

ImpersonateHandlers ==
    { ImpersonateRH("impersonate", m, d) : m \in SupportedMaps, d \in DefaultTargets }

JarA == CookieJar("A", 1)
JarB == CookieJar("B", 1)
JarEmpty == CookieJar("E", 0)
JarDefault == CookieJar("D", 1)

ExtKeys == {"cookiejar", "timeout", "impersonate", "legacy_ssl"}

\* The values a key may hold in a request's extensions.
ExtValues(key, impersonateValues) ==
    CASE key = "cookiejar" -> {JarA}
      [] key = "timeout" -> {Float(5)}
      [] key = "impersonate" -> impersonateValues
      [] OTHER -> {[type |-> "bool", value |-> TRUE]}

Extensions(impersonateValues) ==
    UNION { { e \in [K -> UNION {ExtValues(k, impersonateValues) : k \in K}] :
                \A k \in K : e[k] \in ExtValues(k, impersonateValues) }
            : K \in SUBSET ExtKeys }

\* The requests validation and selection are tried on.
ValidateRequest(scheme, proxy, extensions) ==
    [scheme |-> scheme, proxy |-> proxy, extensions |-> extensions]

\* The targets a request may ask for.
RequestTargets ==
    { PyNone, AnyTarget,
      ImpersonateTarget(Chrome, None, None, None),
      ImpersonateTarget(Chrome, V99, None, None),
      ImpersonateTarget(Safari, None, MacOS, None) }

ValidateRequests ==
    { ValidateRequest(s, p, e) :
        s \in {"http", "ftp"}, p \in {"none", "ftp"},
        e \in Extensions(RequestTargets) }

(***************************************************************************)
(* Strings and headers                                                     *)
(***************************************************************************)

Lowers == <<"a", "b", "c", "d", "e", "f", "g", "h", "i", "j", "k", "l", "m", "n", "o", "p", "q", "r", "s", "t", "u", "v", "w", "x", "y", "z">>
Uppers == <<"A", "B", "C", "D", "E", "F", "G", "H", "I", "J", "K", "L", "M", "N", "O", "P", "Q", "R", "S", "T", "U", "V", "W", "X", "Y", "Z">>

IsLower(c) == \E i \in DOMAIN Lowers : Lowers[i] = c
IsUpper(c) == \E i \in DOMAIN Uppers : Uppers[i] = c

\* str.upper and str.lower on one character.
upper(c) == IF IsLower(c) THEN Uppers[CHOOSE i \in DOMAIN Lowers : Lowers[i] = c] ELSE c
lower(c) == IF IsUpper(c) THEN Lowers[CHOOSE i \in DOMAIN Uppers : Uppers[i] = c] ELSE c

\* str.title: a cased character is upper case after an uncased one (or at the
\* start) and lower case after a cased one.
title(s) ==
    [i \in 1..Len(s) |->
        IF i > 1 /\ (IsLower(s[i - 1]) \/ IsUpper(s[i - 1])) THEN lower(s[i]) ELSE upper(s[i])]

RECURSIVE lstrip(_)
lstrip(s) == IF s # <<>> /\ Head(s) = " " THEN lstrip(Tail(s)) ELSE s

RECURSIVE rstrip(_, _)
\* s.rstrip(c)
rstrip(s, c) == IF s # <<>> /\ s[Len(s)] = c THEN rstrip(SubSeq(s, 1, Len(s) - 1), c) ELSE s

\* str.strip
strip(s) == rstrip(lstrip(s), " ")

\* HTTPHeaderDict.__setitem__: the key is stored in title case, the value stripped.
HeaderSetItem(headers, key, value) ==
    [k \in DOMAIN headers \cup {title(key)} |->
        IF k = title(key) THEN strip(value) ELSE headers[k]]

RECURSIVE HeaderUpdateItems(_, _, _)
\* dict.update from the items of a plain dict, in their order, from index i on.
HeaderUpdateItems(headers, items, i) ==
    IF i > Len(items) THEN headers
    ELSE HeaderUpdateItems(HeaderSetItem(headers, items[i][1], items[i][2]), items, i + 1)

\* HTTPHeaderDict(items): a case-insensitive mapping built from a plain dict.
HTTPHeaderDict(items) == HeaderUpdateItems(<<>>, items, 1)

RECURSIVE HeaderUpdate(_, _)
\* HTTPHeaderDict.update from another mapping.
HeaderUpdate(headers, other) ==
    IF DOMAIN other = {} THEN headers
    ELSE LET k == CHOOSE k \in DOMAIN other : TRUE
         IN  HeaderUpdate(HeaderSetItem(headers, k, other[k]),
                          [j \in DOMAIN other \ {k} |-> other[j]])

\* RequestHandler._merge_headers: HTTPHeaderDict(self.headers, request_headers),
\* the request's headers win over the handler's.
MergeHeaders(rh_headers, request_headers) ==
    HeaderUpdate(HeaderUpdate(<<>>, rh_headers), request_headers)

\* HTTPHeaderDict.pop(key, None)
HeaderPop(headers, key) == Pop(headers, title(key))

_IMPERSONATE_HEADERS_BLACKLIST ==
    << <<"U", "s", "e", "r", "-", "A", "g", "e", "n", "t">>,
       <<"A", "c", "c", "e", "p", "t", "-", "L", "a", "n", "g", "u", "a", "g", "e">>,
       <<"S", "e", "c", "-", "F", "e", "t", "c", "h", "-", "M", "o", "d", "e">>,
       <<"S", "e", "c", "-", "F", "e", "t", "c", "h", "-", "S", "i", "t", "e">>,
       <<"S", "e", "c", "-", "F", "e", "t", "c", "h", "-", "U", "s", "e", "r">>,
       <<"S", "e", "c", "-", "F", "e", "t", "c", "h", "-", "D", "e", "s", "t">>,
       <<"U", "p", "g", "r", "a", "d", "e", "-", "I", "n", "s", "e", "c", "u", "r", "e", "-", "R", "e", "q", "u", "e", "s", "t", "s">>,
       <<"S", "e", "c", "-", "C", "h", "-", "U", "a">>,
       <<"S", "e", "c", "-", "C", "h", "-", "U", "a", "-", "M", "o", "b", "i", "l", "e">>,
       <<"S", "e", "c", "-", "C", "h", "-", "U", "a", "-", "P", "l", "a", "t", "f", "o", "r", "m">> >>

RECURSIVE PopAll(_, _, _)
\* The for loop of _get_impersonate_headers from index i on.
PopAll(headers, names, i) ==
    IF i > Len(names) THEN headers
    ELSE PopAll(HeaderPop(headers, names[i]), names, i + 1)

\* A mutation of _get_impersonate_headers: only a target the request itself
\* carries makes the handler strip headers.
GetImpersonateHeadersRequestOnly(rh, rh_headers, request) ==
    LET headers == MergeHeaders(rh_headers, request.headers)
    IN  IF Get(request.extensions, "impersonate") # PyNone
        THEN PopAll(headers, _IMPERSONATE_HEADERS_BLACKLIST, 1)
        ELSE headers

\* A mutation of _get_impersonate_headers: an all-None target counts as no target.
GetImpersonateHeadersAnyIsNone(rh, rh_headers, request) ==
    LET headers == MergeHeaders(rh_headers, request.headers)
    IN  IF GetRequestTarget(rh, request) \notin {PyNone, AnyTarget}
        THEN PopAll(headers, _IMPERSONATE_HEADERS_BLACKLIST, 1)
        ELSE headers

\* ImpersonateRequestHandler._get_impersonate_headers; rh_headers is self.headers.
GetImpersonateHeaders(rh, rh_headers, request) ==
    LET headers == MergeHeaders(rh_headers, request.headers)
    IN  IF GetRequestTarget(rh, request) # PyNone
        THEN PopAll(headers, _IMPERSONATE_HEADERS_BLACKLIST, 1)
        ELSE headers

MaxHeaders == 2

\* Header names and values a caller may write.
HeaderNames ==
    { <<"u", "s", "e", "r", "-", "a", "g", "e", "n", "t">>,
      <<"U", "S", "E", "R", "-", "A", "G", "E", "N", "T">>,
      <<"S", "e", "c", "-", "C", "h", "-", "U", "a">>,
      <<"X", "-", "F", "o", "o">> }
HeaderValues == { <<"v">>, <<" ", "w", " ">> }

\* A caller's plain dict of headers: its keys are distinct as written.
RawHeaders ==
    UNION { { h \in [1..n -> HeaderNames \X HeaderValues] :
                \A i, j \in 1..n : h[i][1] = h[j][1] => i = j }
            : n \in 0..MaxHeaders }

\* The handler's own default headers.
HandlerHeaders ==
    { HTTPHeaderDict(<<>>),
      HTTPHeaderDict(<< <<<<"U", "s", "e", "r", "-", "A", "g", "e", "n", "t">>, <<"d">>>>, <<<<"A", "c", "c", "e", "p", "t">>, <<"d">>>> >>) }

\* Request(headers=raw, extensions=...): the headers setter builds an HTTPHeaderDict.
HeaderRequest(raw, extensions) ==
    [headers |-> HTTPHeaderDict(raw), extensions |-> extensions]

TargetExtensions ==
    {<<>>} \cup { [k \in {"impersonate"} |-> t] : t \in RequestTargets }

HeaderExtensions ==
    {<<>>} \cup { [k \in {"impersonate"} |-> t] :
                    t \in {PyNone, AnyTarget, ImpersonateTarget(Chrome, None, None, None)} }

\* Handlers the header calls are made on.
HeaderHandlers ==
    { ImpersonateRH("impersonate", <<>>, d) : d \in DefaultTargets }

(***************************************************************************)
(* The caller's Request across a call.  Mappings are objects on a heap: a  *)
(* reference is an index into the sequence of objects, so a pop through    *)
(* one reference shows through every other reference to the same object.   *)
(***************************************************************************)

\* dict.copy(), or a mapping built anew: a new object holding the items; its
\* reference is Len(heap) + 1.
New(heap, items) == Append(heap, items)

\* An in-place change of the object `ref` names.
Mutate(heap, ref, items) == [heap EXCEPT ![ref] = items]

\* The concrete handler's _check_extensions(extensions): the pops are made on
\* the mapping the method is given; an impersonation-capable handler raises
\* before its pops when the target check fails.
CheckExtensionsAt(rh, heap, ref) ==
    IF rh.kind = "requests"
    THEN Mutate(heap, ref, RequestsCheckExtensions(heap[ref]))
    ELSE IF ImpersonateCheckExtensions(rh, heap[ref]) # "ok" THEN heap
    ELSE Mutate(heap, ref, ConcreteImpersonatePops(heap[ref]))

\* A mutation of RequestHandler._validate: _check_extensions is handed
\* request.extensions itself.
ValidateAtNoCopy(rh, request, heap, ext) ==
    IF request.scheme \notin SUPPORTED_URL_SCHEMES THEN heap
    ELSE IF request.proxy # "none" /\ request.proxy \notin SUPPORTED_PROXY_SCHEMES
         THEN heap
    ELSE CheckExtensionsAt(rh, heap, ext)

\* RequestHandler._validate on the heap, `ext` naming request.extensions: the
\* checks of scheme and proxy read only, and _check_extensions is handed
\* request.extensions.copy().
ValidateAt(rh, request, heap, ext) ==
    IF request.scheme \notin SUPPORTED_URL_SCHEMES THEN heap
    ELSE IF request.proxy # "none" /\ request.proxy \notin SUPPORTED_PROXY_SCHEMES
         THEN heap
    ELSE CheckExtensionsAt(rh, New(heap, heap[ext]), Len(heap) + 1)

\* The caller's request once rh.validate(request) has returned or raised.
ValidateFrame(rh, request) ==
    [request EXCEPT !.extensions = ValidateAt(rh, request, <<request.extensions>>, 1)[1]]

\* A mutation of _get_impersonate_headers: the blacklist is popped from
\* request.headers itself.
GetImpersonateHeadersInPlace(rh, rh_headers, request, heap, hdr) ==
    IF GetRequestTarget(rh, request) # PyNone
    THEN Mutate(heap, hdr, PopAll(heap[hdr], _IMPERSONATE_HEADERS_BLACKLIST, 1))
    ELSE heap

\* ImpersonateRequestHandler._get_impersonate_headers on the heap, `hdr` naming
\* request.headers: _merge_headers builds a new mapping and the blacklist is
\* popped from that one.
GetImpersonateHeadersAt(rh, rh_headers, request, heap, hdr) ==
    LET merged == New(heap, MergeHeaders(rh_headers, heap[hdr]))
    IN  IF GetRequestTarget(rh, request) # PyNone
        THEN Mutate(merged, Len(merged),
                    PopAll(merged[Len(merged)], _IMPERSONATE_HEADERS_BLACKLIST, 1))
        ELSE merged

\* The caller's request once rh._get_impersonate_headers(request) has returned.
ImpersonateHeadersFrame(rh, rh_headers, request) ==
    [request EXCEPT !.headers =
        GetImpersonateHeadersAt(rh, rh_headers, request, <<request.headers>>, 1)[1]]

AcceptEncoding == <<"A", "c", "c", "e", "p", "t", "-", "E", "n", "c", "o", "d", "i", "n", "g">>

\* ', '.join(SUPPORTED_ENCODINGS) without brotli
SUPPORTED_ENCODINGS == <<"g", "z", "i", "p", ",", " ", "d", "e", "f", "l", "a", "t", "e">>

\* add_accept_encoding_header(headers, SUPPORTED_ENCODINGS): the header is set
\* on the mapping given unless it is there already.
AddAcceptEncodingHeader(headers) ==
    IF title(AcceptEncoding) \in DOMAIN headers THEN headers
    ELSE HeaderSetItem(headers, AcceptEncoding, SUPPORTED_ENCODINGS)

\* A mutation of RequestsRH._send: the Accept-Encoding header is added to
\* request.headers itself.
SendAtNoMerge(rh, request, heap, hdr, ext) ==
    Mutate(heap, hdr, AddAcceptEncodingHeader(heap[hdr]))

\* RequestsRH._send on the heap: the headers sent are a new mapping merged from
\* request.headers, the Accept-Encoding header is added to that one, and the
\* method, url, data and extensions are read only.
SendAt(rh, request, heap, hdr, ext) ==
    LET merged == New(heap, MergeHeaders(<<>>, heap[hdr]))
    IN  Mutate(merged, Len(merged), AddAcceptEncodingHeader(merged[Len(merged)]))

\* The caller's request once rh.send(request) has returned or raised: validate,
\* then _send when validate did not raise.
SendFrame(rh, request) ==
    LET heap == <<request.headers, request.extensions>>
        validated == ValidateAt(rh, request, heap, 2)
        done == IF Validate(rh, request) = "ok"
                THEN SendAt(rh, request, validated, 1, 2) ELSE validated
    IN  [request EXCEPT !.headers = done[1], !.extensions = done[2]]

TheRequestsRH == RequestsRH(JarDefault, Float(20))

(***************************************************************************)
(* Matching, resolution and validation: one call on drawn arguments        *)
(***************************************************************************)

NotRun == [op |-> "init"]

ContainsCalls ==
    { [op |-> "contains", self |-> self, target |-> target] :
        self \in Targets, target \in Targets \cup NonTargets }

ResolveCalls ==
    { [op |-> "resolve", rh |-> rh, target |-> target] :
        rh \in ImpersonateHandlers, target \in Targets \cup {PyNone} }

ValidateCalls ==
    { [op |-> "validate", rh |-> rh, request |-> request] :
        rh \in ImpersonateHandlers \cup {TheRequestsRH}, request \in ValidateRequests }

MappedTargetCalls ==
    { [op |-> "mapped_target", rh |-> rh, request |-> HeaderRequest(<<>>, e)] :
        rh \in ImpersonateHandlers, e \in TargetExtensions }

PreferenceCalls ==
    { [op |-> "preference", rh |-> rh, request |-> HeaderRequest(<<>>, e)] :
        rh \in ImpersonateHandlers, e \in TargetExtensions }

HeaderCalls ==
    { [op |-> "headers", rh |-> rh, rh_headers |-> hh, raw |-> raw,
       request |-> HeaderRequest(raw, e)] :
        rh \in HeaderHandlers, hh \in HandlerHeaders, raw \in RawHeaders,
        e \in HeaderExtensions }

InitImpersonate ==
    /\ call \in ContainsCalls \cup ResolveCalls \cup ValidateCalls
                \cup MappedTargetCalls \cup PreferenceCalls \cup HeaderCalls
    /\ last = NotRun
    /\ instances = <<>>
    /\ handlers = <<>>
    /\ sessions = <<>>
    /\ threads = <<>>
    /\ used = {}

\* `target in self`
DoContains ==
    /\ call.op = "contains" /\ last = NotRun
    /\ last' = [op |-> "contains", self |-> call.self, target |-> call.target,
                result |-> Contains(call.self, call.target)]
    /\ UNCHANGED <<call, instances, handlers, sessions, threads, used>>

\* rh._resolve_target(target)
DoResolve ==
    /\ call.op = "resolve" /\ last = NotRun
    /\ last' = [op |-> "resolve", rh |-> call.rh, target |-> call.target,
                result |-> ResolveTarget(call.rh, call.target)]
    /\ UNCHANGED <<call, instances, handlers, sessions, threads, used>>

\* rh.validate(request): no session is looked up and nothing is sent.
DoValidate ==
    /\ call.op = "validate" /\ last = NotRun
    /\ last' = [op |-> "validate", rh |-> call.rh, request |-> call.request,
                result |-> Validate(call.rh, call.request), io |-> 0,
                request_after |-> ValidateFrame(call.rh, call.request)]
    /\ UNCHANGED <<call, instances, handlers, sessions, threads, used>>

\* rh._get_mapped_request_target(request): the target looked up and what it
\* resolves to.
DoMappedTarget ==
    /\ call.op = "mapped_target" /\ last = NotRun
    /\ last' = [op |-> "mapped_target", rh |-> call.rh, request |-> call.request,
                target |-> GetRequestTarget(call.rh, call.request),
                result |-> GetMappedRequestTarget(call.rh, call.request)]
    /\ UNCHANGED <<call, instances, handlers, sessions, threads, used>>

\* impersonate_preference(rh, request)
DoPreference ==
    /\ call.op = "preference" /\ last = NotRun
    /\ last' = [op |-> "preference", rh |-> call.rh, request |-> call.request,
                result |-> impersonate_preference(call.rh, call.request)]
    /\ UNCHANGED <<call, instances, handlers, sessions, threads, used>>

\* rh._get_impersonate_headers(request)
DoHeaders ==
    /\ call.op = "headers" /\ last = NotRun
    /\ last' = [op |-> "headers", rh |-> call.rh, rh_headers |-> call.rh_headers,
                raw |-> call.raw, request |-> call.request,
                result |-> GetImpersonateHeaders(call.rh, call.rh_headers, call.request),
                request_after |->
                    ImpersonateHeadersFrame(call.rh, call.rh_headers, call.request)]
    /\ UNCHANGED <<call, instances, handlers, sessions, threads, used>>

NextImpersonate ==
    DoContains \/ DoResolve \/ DoValidate \/ DoMappedTarget \/ DoPreference \/ DoHeaders

SpecImpersonate == InitImpersonate /\ [][NextImpersonate]_vars

(***************************************************************************)
(* Properties of matching, resolution and validation                       *)
(***************************************************************************)

FieldNames == {"client", "version", "os", "os_vers"}

\* The supported targets of rh that the requested target is contained in.
Matches(rh, target) ==
    { i \in 1..Len(rh.supported) : Contains(rh.supported[i], target) }

C9_FirstMatchInDeclaredOrder ==
    last.op = "resolve" =>
        IF last.target = PyNone \/ Matches(last.rh, last.target) = {}
        THEN last.result = PyNone
        ELSE \E i \in Matches(last.rh, last.target) :
                /\ \A j \in Matches(last.rh, last.target) : i <= j
                /\ last.result = last.rh.supported[i]

\* C9 witness: two supported targets contain the requested one and the first
\* declared was returned.
C9_Witness ==
    /\ last.op = "resolve"
    /\ Len(last.rh.supported) = 2
    /\ Matches(last.rh, last.target) = {1, 2}
    /\ last.result = last.rh.supported[1]
    /\ last.result # last.rh.supported[2]

\* C10: `A in B` holds exactly when in each of the four fields A is None, or B is
\* None, or the two are equal; a value that is no ImpersonateTarget is in no target.
C10_Containment ==
    last.op = "contains" =>
        IF last.target \in Targets
        THEN last.result =
                (\A f \in FieldNames :
                    \/ last.target[f] = None
                    \/ last.self[f] = None
                    \/ last.target[f] = last.self[f])
        ELSE last.result = FALSE

\* C10 witness: a target was found contained through a None of its own in one
\* field and a None of the container in another.
C10_Witness ==
    /\ last.op = "contains"
    /\ last.target \in Targets
    /\ last.result = TRUE
    /\ last.target.client = None /\ last.self.client # None
    /\ last.target.version # None /\ last.self.version = None
    /\ last.target.os # None /\ last.self.os = last.target.os

(***************************************************************************)
(* The director: registration and dispatch                                 *)
(***************************************************************************)

DirectorMaps ==
    { <<>>,
      <<ImpersonateTarget(Chrome, None, None, None)>>,
      <<ImpersonateTarget(Chrome, V110, None, None),
        ImpersonateTarget(Safari, None, None, None)>> }

\* The handlers that may be registered, each under its key (its name).
DirectorHandlers ==
    {TheRequestsRH} \cup
    { ImpersonateRH(n, m, d) :
        n \in {"curl_cffi", "other"}, m \in DirectorMaps,
        d \in {PyNone, ImpersonateTarget(Chrome, None, None, None)} }

DirectorRequests ==
    { ValidateRequest(s, "none", e) :
        s \in {"http", "ftp"}, e \in Extensions(RequestTargets) }

InitDirector ==
    /\ call \in { [op |-> "dispatch", request |-> r] : r \in DirectorRequests }
    /\ last = NotRun
    /\ instances = <<>>
    /\ handlers = <<>>
    /\ sessions = <<>>
    /\ threads = <<>>
    /\ used = {}

\* The position of the handler registered under the key, 0 when there is none.
IndexOf(registry, name) ==
    IF \E i \in 1..Len(registry) : registry[i].name = name
    THEN CHOOSE i \in 1..Len(registry) : registry[i].name = name
    ELSE 0

\* add_handler: the registry is a dict keyed by the handler's key, so a handler
\* registered again under a key replaces the earlier one in its place.
AddHandler(rh) ==
    /\ last = NotRun
    /\ IF IndexOf(handlers, rh.name) # 0
       THEN handlers' = [handlers EXCEPT ![IndexOf(handlers, rh.name)] = rh]
       ELSE /\ Len(handlers) < MaxHandlers
            /\ handlers' = Append(handlers, rh)
    /\ UNCHANGED <<call, last, instances, sessions, threads, used>>

\* RequestsRH._create_instance: a new session that holds the cookiejar and whose
\* adapter is mounted with max_retries=Retry(False).
CreateInstance(rh, cookiejar) ==
    [type |-> "RequestsSession", cookies |-> cookiejar,
     max_retries |-> [type |-> "Retry", total |-> FALSE], closed |-> FALSE]

\* The for loop of _get_instance: the position of the first entry stored under
\* the key, 0 when the cache holds none.
FindInstance(cache, key) ==
    IF \E i \in DOMAIN cache : cache[i].key = key
    THEN CHOOSE i \in DOMAIN cache :
            cache[i].key = key /\ \A j \in 1..(i - 1) : cache[j].key # key
    ELSE 0

\* InstanceStoreMixin._get_instance run by one thread alone: the session cached
\* under the key, built by _create_instance and stored when the cache holds none.
\* A session is known by its position in the sequence of sessions built.
GetInstance(rh, cache, built, key) ==
    IF FindInstance(cache, key) # 0
    THEN [cache |-> cache, built |-> built,
          instance |-> cache[FindInstance(cache, key)].instance]
    ELSE [cache |-> Append(cache, [key |-> key, instance |-> Len(built) + 1]),
          built |-> Append(built, CreateInstance(rh, key)),
          instance |-> Len(built) + 1]

\* The cache key of the session RequestsRH._send asks _get_instance for.
SessionKey(rh, request) ==
    Or(Get(request.extensions, "cookiejar"), rh.cookiejar)

\* The director sends the request: the handlers that validate are ranked, and the
\* selected one sends; with none eligible the call fails with UnsupportedRequest.
Dispatch ==
    /\ call.op = "dispatch" /\ last = NotRun
    /\ LET selected == Select(handlers, call.request)
       IN  /\ last' = [op |-> "dispatch", request |-> call.request,
                       eligible |-> Eligible(handlers, call.request),
                       selected |-> selected,
                       result |-> IF selected = 0 THEN "UnsupportedRequest" ELSE "sent",
                       io |-> IF selected = 0 THEN 0 ELSE 1]
           /\ IF selected # 0 /\ handlers[selected].kind = "requests"
              THEN LET got == GetInstance(handlers[selected], instances, sessions,
                                          SessionKey(handlers[selected], call.request))
                   IN  instances' = got.cache /\ sessions' = got.built
              ELSE UNCHANGED <<instances, sessions>>
    /\ UNCHANGED <<call, handlers, threads, used>>

NextDirector == (\E rh \in DirectorHandlers : AddHandler(rh)) \/ Dispatch

SpecDirector == InitDirector /\ [][NextDirector]_vars

(***************************************************************************)
(* Properties of validation and selection in the director                  *)
(***************************************************************************)

\* The handlers of the registry whose validate does not raise for the request.
Validating(request) ==
    { i \in 1..Len(handlers) : Validate(handlers[i], request) = "ok" }

\* C1: among the handlers whose validate does not raise, the one with the highest
\* preference is selected, the first registered among those that share the
\* highest preference; with no such handler none is selected.
C1_HighestPreferenceFirstRegistered ==
    last.op = "dispatch" =>
        IF Validating(last.request) = {}
        THEN last.selected = 0
        ELSE /\ last.selected \in Validating(last.request)
             /\ \A j \in Validating(last.request) :
                    /\ Preference(handlers[j], last.request)
                          <= Preference(handlers[last.selected], last.request)
                    /\ Preference(handlers[j], last.request)
                          = Preference(handlers[last.selected], last.request)
                       => last.selected <= j

\* C1 witness: two eligible handlers share the highest preference and the first
\* registered was selected.
C1_Witness ==
    /\ last.op = "dispatch"
    /\ Validating(last.request) = {1, 2}
    /\ Preference(handlers[1], last.request) = Preference(handlers[2], last.request)
    /\ last.selected = 1

\* The registry holds the requests handler and one impersonation-capable handler,
\* and the request is one the checks of scheme, proxy and extension keys accept.
TwoHandlerCase ==
    /\ last.op = "dispatch"
    /\ Len(handlers) = 2
    /\ {handlers[1].kind, handlers[2].kind} = {"requests", "impersonate"}
    /\ last.request.scheme \in {"http", "https"}
    /\ DOMAIN last.request.extensions \subseteq {"impersonate", "cookiejar", "timeout"}

H1 == CHOOSE i \in 1..2 : handlers[i].kind = "requests"
H2 == CHOOSE i \in 1..2 : handlers[i].kind = "impersonate"

\* The target is None, or H2 declares no targets, or one of them contains it.
H2Accepts(target) ==
    \/ target = PyNone
    \/ Len(handlers[H2].supported) = 0
    \/ Matches(handlers[H2], target) # {}

\* C2 as stated: a request with the impersonate extension set selects H2 and a
\* request without it selects H1.
C2_AsStated ==
    TwoHandlerCase =>
        IF Get(last.request.extensions, "impersonate") # PyNone
        THEN last.selected = H2
        ELSE last.selected = H1

\* C2 as amended: a request whose impersonate extension is a target H2 accepts
\* selects H2 when H2 also accepts its own default target; a request without the
\* extension selects H1 when H2's default target is None, and selects H2 when
\* H2's default target is not None and H2 accepts it.
C2_SelectionByImpersonation ==
    TwoHandlerCase =>
        LET requested == Get(last.request.extensions, "impersonate")
            default == handlers[H2].impersonate
        IN  /\ (requested # PyNone /\ H2Accepts(requested) /\ H2Accepts(default))
                  => last.selected = H2
            /\ ("impersonate" \notin DOMAIN last.request.extensions /\ default = PyNone)
                  => last.selected = H1
            /\ ("impersonate" \notin DOMAIN last.request.extensions
                  /\ default # PyNone /\ H2Accepts(default))
                  => last.selected = H2

\* C2 witness: H2, registered second and with a default target of its own, was
\* selected for a request that carries no impersonate extension.
C2_Witness ==
    /\ TwoHandlerCase
    /\ H2 = 2
    /\ "impersonate" \notin DOMAIN last.request.extensions
    /\ handlers[H2].impersonate # PyNone
    /\ last.selected = H2

\* The extension keys a handler pops from the copy it is given.
SupportedKeys(rh) ==
    IF rh.kind = "requests" THEN {"cookiejar", "timeout"}
    ELSE {"impersonate", "cookiejar", "timeout"}

\* C7: a handler is never eligible for a request that carries an extension key
\* outside its supported set, and when that excludes every handler the call ends
\* in UnsupportedRequest with no session created and nothing sent; the requests
\* handler is eligible for a request of a supported scheme exactly when the keys
\* are among cookiejar and timeout.
C7_UnsupportedExtensionRejectedBeforeIO ==
    last.op = "dispatch" =>
        LET keys == DOMAIN last.request.extensions
            excluded == { i \in 1..Len(handlers) : ~(keys \subseteq SupportedKeys(handlers[i])) }
        IN  /\ excluded \cap last.eligible = {}
            /\ last.selected \notin excluded
            /\ excluded = 1..Len(handlers) =>
                  /\ last.result = "UnsupportedRequest"
                  /\ last.io = 0
                  /\ instances = <<>> /\ sessions = <<>>
            /\ \A i \in 1..Len(handlers) :
                  (handlers[i].kind = "requests" /\ last.request.scheme \in {"http", "https"})
                  => (i \in last.eligible <=> keys \subseteq {"cookiejar", "timeout"})

\* C7 witness: the requests handler was registered and rejected a request that
\* carries the impersonate key, and nothing was sent.
C7_Witness ==
    /\ last.op = "dispatch"
    /\ Len(handlers) = 1
    /\ handlers[1].kind = "requests"
    /\ last.request.scheme = "http"
    /\ DOMAIN last.request.extensions = {"impersonate", "timeout"}
    /\ last.result = "UnsupportedRequest"
    /\ last.io = 0
    /\ instances = <<>> /\ sessions = <<>>

(***************************************************************************)
(* RequestsSession: redirects                                              *)
(***************************************************************************)

MaxRedirects == 2

\* The statuses requests treats as a redirect when a Location header is present.
REDIRECT_STATI == {301, 302, 303, 307, 308}

\* The request as prepared for one hop: its method, its body, and whether the
\* body headers (Content-Length, Content-Type, Transfer-Encoding) are still set.
PreparedRequest(method, body) ==
    [method |-> method, body |-> body, content_headers |-> body # PyNone]

\* A response as requests holds it: real_status_code is <<>> while the response
\* has no _real_status_code attribute.
HopResponse(status, location) ==
    [type |-> "Response", status_code |-> status, location |-> location,
     real_status_code |-> <<>>]

\* get_redirect_method: a 303 becomes GET unless the method is HEAD, a 301 or 302
\* turns POST into GET, anything else keeps the method.
get_redirect_method(method, status) ==
    IF status = 303 /\ method # "HEAD" THEN "GET"
    ELSE IF status \in {301, 302} /\ method = "POST" THEN "GET"
    ELSE method

\* A mutation of rebuild_method: the guard of the status substitution has the
\* opposite polarity.
RebuildMethodInverted(prepared_request, response) ==
    LET new_method == get_redirect_method(prepared_request.method, response.status_code)
    IN  [request |-> [prepared_request EXCEPT !.method = new_method],
         response |->
            IF new_method # prepared_request.method
            THEN [response EXCEPT !.real_status_code = <<response.status_code>>,
                                  !.status_code = 308]
            ELSE response]

\* RequestsSession.rebuild_method
RebuildMethod(prepared_request, response) ==
    LET new_method == get_redirect_method(prepared_request.method, response.status_code)
    IN  [request |-> [prepared_request EXCEPT !.method = new_method],
         response |->
            IF ~(new_method # prepared_request.method)
            THEN [response EXCEPT !.real_status_code = <<response.status_code>>,
                                  !.status_code = 308]
            ELSE response]

\* A mutation of rebuild_auth: the status the server sent is not put back.
RebuildAuthKeepsSubstitute(prepared_request, response) ==
    [request |-> prepared_request, response |-> response]

\* RequestsSession.rebuild_auth: the status the server sent is put back.
RebuildAuth(prepared_request, response) ==
    [request |-> prepared_request,
     response |->
        IF response.real_status_code # <<>>
        THEN [response EXCEPT !.status_code = response.real_status_code[1],
                              !.real_status_code = <<>>]
        ELSE response]

\* One redirect as Session.resolve_redirects performs it around the two hooks:
\* rebuild_method, then the body and its headers are removed unless the status
\* is now 307 or 308, then rebuild_auth.
RedirectStep(prepared_request, response) ==
    LET rm == RebuildMethod(prepared_request, response)
        purged == IF rm.response.status_code \notin {307, 308}
                  THEN [rm.request EXCEPT !.body = PyNone, !.content_headers = FALSE]
                  ELSE rm.request
    IN  RebuildAuth(purged, rm.response)

TooManyRedirects(response) ==
    [type |-> "exception", cls |-> "requests.TooManyRedirects",
     bases |-> {"requests.TooManyRedirects", "requests.RequestException"},
     marker |-> FALSE, response |-> response]

RECURSIVE FollowRedirects(_, _, _, _, _)
\* session.request(..., allow_redirects=True) against a server that answers hop i
\* with hops[i]: the requests sent, the responses as left behind, and either the
\* final response or the exception raised.
FollowRedirects(prepared_request, hops, i, sent, seen) ==
    LET response == hops[i]
        sentNow == Append(sent, prepared_request)
    IN  IF response.status_code \in REDIRECT_STATI /\ response.location
        THEN IF i - 1 >= MaxRedirects
             THEN [raised |-> TooManyRedirects(response), response |-> PyNone,
                   sent |-> sentNow, responses |-> Append(seen, response)]
             ELSE LET step == RedirectStep(prepared_request, response)
                  IN  FollowRedirects(step.request, hops, i + 1, sentNow,
                                      Append(seen, step.response))
        ELSE [raised |-> PyNone, response |-> response,
              sent |-> sentNow, responses |-> Append(seen, response)]

(***************************************************************************)
(* RequestsRH._send                                                        *)
(***************************************************************************)

\* An exception of the transport libraries: its class, the classes it is an
\* instance of, and whether its text holds CERTIFICATE_VERIFY_FAILED.
Exception(cls, bases, marker) ==
    [type |-> "exception", cls |-> cls, bases |-> bases \cup {cls},
     marker |-> marker, response |-> PyNone]

\* What session.request may raise before any response is returned.
SendExceptions ==
    { Exception("requests.SSLError",
                {"requests.ConnectionError", "requests.RequestException"}, m)
        : m \in BOOLEAN } \cup
    { Exception("requests.ProxyError",
                {"requests.ConnectionError", "requests.RequestException"}, FALSE),
      Exception("requests.ConnectionError", {"requests.RequestException"}, FALSE),
      Exception("requests.ConnectionError", {"requests.RequestException"}, TRUE),
      Exception("requests.ConnectTimeout",
                {"requests.ConnectionError", "requests.Timeout",
                 "requests.RequestException"}, FALSE),
      Exception("requests.ReadTimeout",
                {"requests.Timeout", "requests.RequestException"}, FALSE),
      Exception("requests.InvalidURL", {"requests.RequestException"}, FALSE),
      Exception("requests.InvalidSchema", {"requests.RequestException"}, FALSE),
      Exception("urllib3.LocationParseError", {"urllib3.HTTPError"}, FALSE) }

\* The outcome of a call that raises `kind`.
Raise(kind, cause, response, redirect_loop) ==
    [result |-> kind, cause |-> cause, response |-> response,
     redirect_loop |-> redirect_loop]

\* RequestsResponseAdapter(res)
RequestsResponseAdapter(res) ==
    [type |-> "RequestsResponseAdapter", status |-> res.status_code,
     requests_response |-> res]

\* A mutation of the status check of _send: 300 counts as success.
StatusCheckInclusive(requests_res, max_redirects_exceeded) ==
    IF ~(200 <= requests_res.status /\ requests_res.status <= 300)
    THEN Raise("HTTPError", PyNone, requests_res, max_redirects_exceeded)
    ELSE [result |-> "Response", cause |-> PyNone, response |-> requests_res,
          redirect_loop |-> FALSE]

\* The end of _send: HTTPError unless 200 <= status < 300.
StatusCheck(requests_res, max_redirects_exceeded) ==
    IF ~(200 <= requests_res.status /\ requests_res.status < 300)
    THEN Raise("HTTPError", PyNone, requests_res, max_redirects_exceeded)
    ELSE [result |-> "Response", cause |-> PyNone, response |-> requests_res,
          redirect_loop |-> FALSE]

\* A mutation of the TooManyRedirects clause: the flag is never set.
TooManyRedirectsClauseNoFlag(e) ==
    StatusCheck(RequestsResponseAdapter(e.response), FALSE)

\* The TooManyRedirects clause of _send: the flag is set and the response of the
\* exception goes on to the status check.
TooManyRedirectsClause(e) ==
    StatusCheck(RequestsResponseAdapter(e.response), TRUE)

\* A mutation of the except clauses of _send: the clause for ConnectionError and
\* Timeout comes before the clauses for SSLError and ProxyError.
SendExceptConnectionFirst(e) ==
    IF "requests.TooManyRedirects" \in e.bases THEN TooManyRedirectsClause(e)
    ELSE IF e.bases \cap {"requests.ConnectionError", "requests.Timeout"} # {}
         THEN Raise("TransportError", e, PyNone, FALSE)
    ELSE IF "requests.SSLError" \in e.bases
         THEN IF e.marker THEN Raise("CertificateVerifyError", e, PyNone, FALSE)
              ELSE Raise("SSLError", e, PyNone, FALSE)
    ELSE IF "requests.ProxyError" \in e.bases THEN Raise("ProxyError", e, PyNone, FALSE)
    ELSE IF "urllib3.HTTPError" \in e.bases THEN Raise("TransportError", e, PyNone, FALSE)
    ELSE IF "requests.RequestException" \in e.bases
         THEN Raise("RequestError", e, PyNone, FALSE)
    ELSE Raise(e.cls, PyNone, PyNone, FALSE)

\* A mutation of the except clauses of _send: the text of an SSLError is not
\* looked at, every one is raised as SSLError.
SendExceptIgnoresMarker(e) ==
    IF "requests.TooManyRedirects" \in e.bases THEN TooManyRedirectsClause(e)
    ELSE IF "requests.SSLError" \in e.bases THEN Raise("SSLError", e, PyNone, FALSE)
    ELSE IF "requests.ProxyError" \in e.bases THEN Raise("ProxyError", e, PyNone, FALSE)
    ELSE IF e.bases \cap {"requests.ConnectionError", "requests.Timeout"} # {}
         THEN Raise("TransportError", e, PyNone, FALSE)
    ELSE IF "urllib3.HTTPError" \in e.bases THEN Raise("TransportError", e, PyNone, FALSE)
    ELSE IF "requests.RequestException" \in e.bases
         THEN Raise("RequestError", e, PyNone, FALSE)
    ELSE Raise(e.cls, PyNone, PyNone, FALSE)

\* The except clauses of _send, in their order, on the exception e.
SendExcept(e) ==
    IF "requests.TooManyRedirects" \in e.bases THEN TooManyRedirectsClause(e)
    ELSE IF "requests.SSLError" \in e.bases
         THEN IF e.marker THEN Raise("CertificateVerifyError", e, PyNone, FALSE)
              ELSE Raise("SSLError", e, PyNone, FALSE)
    ELSE IF "requests.ProxyError" \in e.bases THEN Raise("ProxyError", e, PyNone, FALSE)
    ELSE IF e.bases \cap {"requests.ConnectionError", "requests.Timeout"} # {}
         THEN Raise("TransportError", e, PyNone, FALSE)
    ELSE IF "urllib3.HTTPError" \in e.bases THEN Raise("TransportError", e, PyNone, FALSE)
    ELSE IF "requests.RequestException" \in e.bases
         THEN Raise("RequestError", e, PyNone, FALSE)
    ELSE Raise(e.cls, PyNone, PyNone, FALSE)

\* RequestsRH._send(request) when the transport behaves as env says: env.raises is
\* the exception session.request raises at once, or None and then env.hops are
\* the server's answers.
Send(rh, request, env) ==
    LET exchange ==
            IF env.raises # PyNone
            THEN [raised |-> env.raises, response |-> PyNone, sent |-> <<>>,
                  responses |-> <<>>]
            ELSE FollowRedirects(PreparedRequest(request.method, request.data),
                                 env.hops, 1, <<>>, <<>>)
        outcome ==
            IF exchange.raised # PyNone THEN SendExcept(exchange.raised)
            ELSE StatusCheck(RequestsResponseAdapter(exchange.response), FALSE)
    IN  [op |-> "send", request |-> request, env |-> env,
         session |-> SessionKey(rh, request),
         timeout |-> Or(Get(request.extensions, "timeout"), rh.timeout).value,
         raised |-> exchange.raised, sent |-> exchange.sent,
         responses |-> exchange.responses,
         result |-> outcome.result, cause |-> outcome.cause,
         response |-> outcome.response, redirect_loop |-> outcome.redirect_loop,
         request_after |-> SendFrame(rh, request)]

Body == [type |-> "bytes", len |-> 1]

\* The responses a server may give at one hop: a redirect status with a Location
\* header, a 302 without one, or a status that is no redirect.
HopResponses ==
    { HopResponse(st, TRUE) : st \in REDIRECT_STATI } \cup
    { HopResponse(st, FALSE) : st \in {200, 299, 300, 302, 404} }

Followed(response) == response.status_code \in REDIRECT_STATI /\ response.location

\* The answers of a server up to the hop where the exchange ends: every answer
\* but the last is a redirect that is followed.
HopScripts ==
    UNION { { h \in [1..n -> HopResponses] :
                /\ \A i \in 1..(n - 1) : Followed(h[i])
                /\ Followed(h[n]) => n = MaxRedirects + 1 }
            : n \in 1..(MaxRedirects + 1) }

SendRequest(method, data, extensions) ==
    [method |-> method, data |-> data, scheme |-> "http", proxy |-> "none",
     headers |-> HTTPHeaderDict(<< <<<<"u", "s", "e", "r", "-", "a", "g", "e", "n", "t">>, <<"v">>>> >>),
     extensions |-> extensions]

SendExtensions ==
    { <<>>,
      [cookiejar |-> JarA],
      [timeout |-> Float(0)],
      [cookiejar |-> JarEmpty, timeout |-> Float(5)] }

SendRequests ==
    { SendRequest(m, d, e) :
        m \in {"GET", "POST", "HEAD"}, d \in {PyNone, Body}, e \in SendExtensions }

SendEnvs ==
    { [raises |-> e, hops |-> <<>>] : e \in SendExceptions } \cup
    { [raises |-> PyNone, hops |-> h] : h \in HopScripts }

InitSend ==
    /\ call \in { [op |-> "send", request |-> r, env |-> v] :
                    r \in SendRequests, v \in SendEnvs }
    /\ last = NotRun
    /\ instances = <<>>
    /\ handlers = <<>>
    /\ sessions = <<>>
    /\ threads = <<>>
    /\ used = {}

\* rh._send(request): the session is looked up before anything is sent.
DoSend ==
    /\ call.op = "send" /\ last = NotRun
    /\ last' = Send(TheRequestsRH, call.request, call.env)
    /\ LET got == GetInstance(TheRequestsRH, instances, sessions,
                               SessionKey(TheRequestsRH, call.request))
       IN  instances' = got.cache /\ sessions' = got.built
    /\ UNCHANGED <<call, handlers, threads, used>>

NextSend == DoSend

SpecSend == InitSend /\ [][NextSend]_vars

(***************************************************************************)
(* RequestsResponseAdapter.read                                            *)
(***************************************************************************)

MaxBody == 2

PyInt(n) == [type |-> "int", value |-> n]
PyBytes(n) == [type |-> "bytes", len |-> n]

\* An exception urllib3 raises on a read: partial and expected as the exception
\* carries them, and the error it contains (in its args, cause or context).
ReadException(cls, bases, partial, expected, inner) ==
    [type |-> "exception", cls |-> cls, bases |-> bases \cup {cls},
     partial |-> partial, expected |-> expected, inner |-> inner]

\* urllib3.exceptions.IncompleteRead is a subclass of http.client.IncompleteRead
\* whose partial is an integer.
Urllib3IncompleteRead(p, e) ==
    ReadException("urllib3.IncompleteRead",
                  {"urllib3.HTTPError", "http.client.IncompleteRead"},
                  PyInt(p), PyInt(e), PyNone)

\* http.client.IncompleteRead holds the bytes received so far.
HttpClientIncompleteRead(p, e) ==
    ReadException("http.client.IncompleteRead", {}, PyBytes(p), PyInt(e), PyNone)

ProtocolError(inner) ==
    ReadException("urllib3.ProtocolError", {"urllib3.HTTPError"}, PyNone, PyNone, inner)

ReadExceptions ==
    { ReadException("urllib3.SSLError", {"urllib3.HTTPError"}, PyNone, PyNone, PyNone),
      ReadException("urllib3.ReadTimeoutError", {"urllib3.HTTPError"}, PyNone, PyNone, PyNone),
      ReadException("urllib3.DecodeError", {"urllib3.HTTPError"}, PyNone, PyNone, PyNone),
      ProtocolError(PyNone) } \cup
    { Urllib3IncompleteRead(p, e) : p \in 0..MaxBody, e \in 0..MaxBody } \cup
    { ProtocolError(Urllib3IncompleteRead(p, e)) : p \in 0..MaxBody, e \in 0..MaxBody } \cup
    { ProtocolError(HttpClientIncompleteRead(p, e)) : p \in 0..MaxBody, e \in 0..MaxBody }

\* The outcome of a read that raises `kind`.
ReadRaise(kind, cause, partial, expected) ==
    [result |-> kind, cause |-> cause, partial |-> partial, expected |-> expected,
     data |-> PyNone]

\* The ProtocolError clause of read: the first IncompleteRead of http.client found
\* in the error, len() of whose partial raises TypeError on an integer.
ProtocolErrorClause(e) ==
    LET ir_err == IF e.inner # PyNone /\ "http.client.IncompleteRead" \in e.inner.bases
                  THEN e.inner ELSE PyNone
    IN  IF ir_err # PyNone
        THEN IF ir_err.partial.type = "bytes"
             THEN ReadRaise("IncompleteRead", e, PyInt(ir_err.partial.len), ir_err.expected)
             ELSE ReadRaise("TypeError", PyNone, PyNone, PyNone)
        ELSE ReadRaise("TransportError", e, PyNone, PyNone)

\* The except clauses of read, in their order, on the exception e.
ReadExcept(e) ==
    IF "urllib3.SSLError" \in e.bases THEN ReadRaise("SSLError", e, PyNone, PyNone)
    ELSE IF "urllib3.IncompleteRead" \in e.bases
         THEN ReadRaise("IncompleteRead", e, e.partial, e.expected)
    ELSE IF "urllib3.ProtocolError" \in e.bases THEN ProtocolErrorClause(e)
    ELSE IF "urllib3.HTTPError" \in e.bases THEN ReadRaise("TransportError", e, PyNone, PyNone)
    ELSE ReadRaise(e.cls, PyNone, PyNone, PyNone)

\* RequestsResponseAdapter.read(amt) on a body of which `available` bytes are
\* left, when fp.read raises env_raises or (None) returns.
Read(amt, available, env_raises) ==
    LET outcome ==
            IF env_raises # PyNone THEN ReadExcept(env_raises)
            ELSE [result |-> "data", cause |-> PyNone, partial |-> PyNone,
                  expected |-> PyNone,
                  data |-> IF amt = PyNone \/ amt.value > available
                           THEN PyBytes(available) ELSE PyBytes(amt.value)]
    IN  [op |-> "read", amt |-> amt, available |-> available, raised |-> env_raises,
         result |-> outcome.result, cause |-> outcome.cause,
         partial |-> outcome.partial, expected |-> outcome.expected,
         data |-> outcome.data]

\* The ways a body that ends early is reported to read: urllib3 raises its own
\* IncompleteRead, as it is or inside a ProtocolError, or a ProtocolError that
\* holds the IncompleteRead of http.client.
ShortReadReports == {"urllib3", "urllib3 in ProtocolError", "http.client in ProtocolError"}

\* The exception fp.read raises when the connection closes after `received` of
\* the `declared` bytes: both libraries count in `expected` the bytes still
\* missing; urllib3 gives the bytes received as a number, http.client as bytes.
ShortBodyError(declared, received, report) ==
    CASE report = "urllib3" -> Urllib3IncompleteRead(received, declared - received)
      [] report = "urllib3 in ProtocolError" ->
            ProtocolError(Urllib3IncompleteRead(received, declared - received))
      [] OTHER -> ProtocolError(HttpClientIncompleteRead(received, declared - received))

ShortReadCalls ==
    { [op |-> "short_read", declared |-> d, received |-> r, report |-> w] :
        d \in 1..(MaxBody + 1), r \in 0..MaxBody, w \in ShortReadReports }

InitRead ==
    /\ call \in { [op |-> "read", amt |-> a, available |-> n, raises |-> e] :
                    a \in {PyNone} \cup {PyInt(k) : k \in 1..MaxBody},
                    n \in 0..MaxBody,
                    e \in {PyNone} \cup ReadExceptions }
                \cup { c \in ShortReadCalls : c.received < c.declared }
    /\ last = NotRun
    /\ instances = <<>>
    /\ handlers = <<>>
    /\ sessions = <<>>
    /\ threads = <<>>
    /\ used = {}

\* response.read(amt)
DoRead ==
    /\ call.op = "read" /\ last = NotRun
    /\ last' = Read(call.amt, call.available, call.raises)
    /\ UNCHANGED <<call, instances, handlers, sessions, threads, used>>

\* response.read() on a body whose connection closed before the declared length.
DoShortRead ==
    /\ call.op = "short_read" /\ last = NotRun
    /\ LET read == Read(PyNone, 0,
                        ShortBodyError(call.declared, call.received, call.report))
       IN  last' = [op |-> "short_read", declared |-> call.declared,
                    received |-> call.received, report |-> call.report,
                    raised |-> read.raised, result |-> read.result,
                    cause |-> read.cause, partial |-> read.partial,
                    expected |-> read.expected, data |-> read.data]
    /\ UNCHANGED <<call, instances, handlers, sessions, threads, used>>

NextRead == DoRead \/ DoShortRead

SpecRead == InitRead /\ [][NextRead]_vars

(***************************************************************************)
(* Properties of send and read                                             *)
(***************************************************************************)

\* The error kinds of the networking exceptions.
Taxonomy ==
    {"UnsupportedRequest", "TransportError", "SSLError", "CertificateVerifyError",
     "ProxyError", "IncompleteRead", "HTTPError", "RequestError"}

\* C3 as stated: whenever the transport library raises during send or during a
\* body read, the call raises one of the taxonomy kinds with the exception the
\* library raised as its cause.
C3_EveryTransportErrorIsWrapped ==
    (last.op \in {"send", "read"} /\ last.raised # PyNone)
    => /\ last.result \in Taxonomy
       /\ last.cause = last.raised

\* The last answer of the server in the exchange of the last send.
FinalHop == last.env.hops[Len(last.env.hops)]

\* The last send ended with a response in hand: the final response, or the
\* redirect at which the limit was exceeded.
Answered == last.op = "send" /\ last.env.raises = PyNone

\* C4: send returns a Response exactly when the final status is in [200,300); for
\* any other final status it raises HTTPError that wraps the final response,
\* status included.
C4_StatusContract ==
    Answered =>
        LET ok == 200 <= FinalHop.status_code /\ FinalHop.status_code < 300
        IN  /\ last.result = "Response" <=> ok
            /\ ~ok => /\ last.result = "HTTPError"
                      /\ last.response.status = FinalHop.status_code
            /\ last.response.requests_response = FinalHop

\* C4 witness: a final status of 300 was raised as HTTPError around the response.
C4_Witness ==
    /\ Answered
    /\ FinalHop.status_code = 300
    /\ last.result = "HTTPError"
    /\ last.response.status = 300

\* The exchange of the last send ran into the redirect limit: after MaxRedirects
\* redirects were followed the server answered with one more.
LimitExceeded ==
    /\ Len(last.env.hops) > MaxRedirects
    /\ Followed(FinalHop)

\* C5: when the redirect limit is exceeded send raises HTTPError with
\* redirect_loop set, around the response of the last hop reached; an HTTPError
\* raised without the limit being exceeded has redirect_loop unset.
C5_RedirectLoop ==
    Answered =>
        /\ LimitExceeded =>
              /\ last.result = "HTTPError"
              /\ last.redirect_loop = TRUE
              /\ last.response.requests_response = FinalHop
              /\ Len(last.sent) = MaxRedirects + 1
        /\ (last.result = "HTTPError" /\ ~LimitExceeded) => last.redirect_loop = FALSE

\* C5 witness: the limit was exceeded on a 307 and HTTPError carries the flag.
C5_Witness ==
    /\ Answered
    /\ LimitExceeded
    /\ FinalHop.status_code = 307
    /\ last.result = "HTTPError"
    /\ last.redirect_loop = TRUE

\* C6: on every followed redirect, a POST answered with 301 or 302 is resent as
\* GET without body, a request other than HEAD answered with 303 is resent as
\* GET, and a POST answered with 307 or 308 is resent as POST with its body.
C6_RedirectMethodRewrite ==
    Answered =>
        \A i \in 1..(Len(last.sent) - 1) :
            LET before == last.sent[i]
                after == last.sent[i + 1]
                status == last.env.hops[i].status_code
            IN  /\ (before.method = "POST" /\ status \in {301, 302})
                      => (after.method = "GET" /\ after.body = PyNone)
                /\ (before.method # "HEAD" /\ status = 303) => after.method = "GET"
                /\ (before.method = "POST" /\ status \in {307, 308})
                      => (after.method = "POST" /\ after.body = before.body)

\* C6 witness: a POST with a body was resent with it after a 307 and then resent
\* as a GET without it after a 301.
C6_Witness ==
    /\ Answered
    /\ Len(last.sent) = 3
    /\ last.env.hops[1].status_code = 307
    /\ last.env.hops[2].status_code = 301
    /\ last.sent[1] = PreparedRequest("POST", Body)
    /\ last.sent[2] = PreparedRequest("POST", Body)
    /\ last.sent[3].method = "GET" /\ last.sent[3].body = PyNone

(***************************************************************************)
(* The all-None target                                                     *)
(***************************************************************************)

\* C11: the all-None target ImpersonateTarget() is contained in every target, so
\* every supported target of a handler matches it and resolution of it yields the
\* first target the handler declares; and every target is contained in itself.
C11_AllNoneContainedEverywhere ==
    /\ (last.op = "contains" /\ last.target = AnyTarget) => last.result = TRUE
    /\ (last.op = "contains" /\ last.target = last.self) => last.result = TRUE
    /\ (last.op = "resolve" /\ last.target = AnyTarget) =>
          /\ Matches(last.rh, AnyTarget) = 1..Len(last.rh.supported)
          /\ Len(last.rh.supported) > 0 => last.result = last.rh.supported[1]

\* C11 witness: the all-None target was found contained in a target that names
\* all four fields.
C11_Witness ==
    /\ last.op = "contains"
    /\ last.target = AnyTarget
    /\ \A f \in FieldNames : last.self[f] # None
    /\ last.result = TRUE

\* The target a call acts for: the request's impersonate extension, the handler's
\* default when the request has none.
Carries(rh, request, t) ==
    IF Get(request.extensions, "impersonate") # PyNone
    THEN Get(request.extensions, "impersonate") = t
    ELSE rh.impersonate = t

Blacklisted == { _IMPERSONATE_HEADERS_BLACKLIST[i] : i \in DOMAIN _IMPERSONATE_HEADERS_BLACKLIST }

\* C12: a request or handler default carrying the all-None target counts as
\* impersonation requested: the target looked up is that target and it resolves
\* to the first supported target, the preference is 1000, and the blacklisted
\* headers are stripped. With None on the request and on the handler nothing is
\* requested: no target is looked up or resolved, the preference is 0 and the
\* merged headers are returned whole.
C12_AllNoneIsARequest ==
    /\ (last.op = "mapped_target" /\ Carries(last.rh, last.request, AnyTarget)) =>
          /\ last.target = AnyTarget
          /\ last.result = IF Len(last.rh.supported) > 0
                           THEN last.rh.supported[1] ELSE PyNone
    /\ (last.op = "mapped_target" /\ Carries(last.rh, last.request, PyNone)) =>
          last.target = PyNone /\ last.result = PyNone
    /\ (last.op = "preference" /\ Carries(last.rh, last.request, AnyTarget)) =>
          last.result = 1000
    /\ (last.op = "preference" /\ Carries(last.rh, last.request, PyNone)) =>
          last.result = 0
    /\ (last.op = "headers" /\ Carries(last.rh, last.request, AnyTarget)) =>
          DOMAIN last.result = DOMAIN MergeHeaders(last.rh_headers, last.request.headers)
                                  \ Blacklisted
    /\ (last.op = "headers" /\ Carries(last.rh, last.request, PyNone)) =>
          last.result = MergeHeaders(last.rh_headers, last.request.headers)

\* C12 witness: the handler's default is the all-None target, the request has no
\* target, and a User-Agent the caller wrote was stripped.
C12_Witness ==
    /\ last.op = "headers"
    /\ last.rh.impersonate = AnyTarget
    /\ DOMAIN last.request.extensions = {}
    /\ <<"U", "s", "e", "r", "-", "A", "g", "e", "n", "t">> \in DOMAIN last.request.headers
    /\ <<"U", "s", "e", "r", "-", "A", "g", "e", "n", "t">> \notin DOMAIN last.result
    /\ DOMAIN last.result # {}

(***************************************************************************)
(* ImpersonateTarget as a string                                           *)
(***************************************************************************)

Colon == ":"

\* The field values the string conversions are tried on: None, the empty string,
\* plain names, names with blanks around them and names holding a colon.
StrFieldVals ==
    { None, <<>>, <<"a">>, <<"b">>, <<" ", "a">>, <<"a", " ">>, <<" ">>,
      <<"a", ":", "b">> }

StrTargets ==
    { ImpersonateTarget(c, v, o, ov) :
        c \in StrFieldVals, v \in StrFieldVals, o \in StrFieldVals, ov \in StrFieldVals }

\* `part or ''`
OrEmpty(part) == IF part = None \/ part = <<>> THEN <<>> ELSE part

RECURSIVE Join(_, _)
\* ':'.join(parts), from index i on.
Join(parts, i) ==
    IF i > Len(parts) THEN <<>>
    ELSE IF i = Len(parts) THEN parts[i]
    ELSE parts[i] \o <<Colon>> \o Join(parts, i + 1)

RECURSIVE Split(_)
\* s.split(':')
Split(s) ==
    IF \A i \in DOMAIN s : s[i] # Colon THEN <<s>>
    ELSE LET i == CHOOSE i \in DOMAIN s :
                    s[i] = Colon /\ \A j \in 1..(i - 1) : s[j] # Colon
         IN  <<SubSeq(s, 1, i - 1)>> \o Split(SubSeq(s, i + 1, Len(s)))

\* A mutation of __str__: the trailing colons stay.
StrKeepsTrailing(target) ==
    Join(<<OrEmpty(target.client), OrEmpty(target.version),
           OrEmpty(target.os), OrEmpty(target.os_vers)>>, 1)

\* ImpersonateTarget.__str__
Str(target) ==
    rstrip(Join(<<OrEmpty(target.client), OrEmpty(target.version),
                  OrEmpty(target.os), OrEmpty(target.os_vers)>>, 1), Colon)

\* cls(*values): the dataclass constructor takes at most four positional
\* arguments and fills the missing ones with None.
Construct(values) ==
    IF Len(values) > 4 THEN [type |-> "TypeError"]
    ELSE LET arg(i) == IF i <= Len(values) THEN values[i] ELSE None
         IN  ImpersonateTarget(arg(1), arg(2), arg(3), arg(4))

\* A mutation of from_str: an empty segment stays the empty string.
from_str_keeps_empty(target) ==
    LET segments == Split(target)
    IN  Construct([i \in DOMAIN segments |-> strip(segments[i])])

\* ImpersonateTarget.from_str
from_str(target) ==
    LET segments == Split(target)
    IN  Construct([i \in DOMAIN segments |->
                      IF strip(segments[i]) = <<>> THEN None ELSE strip(segments[i])])

\* The strings parsing is tried on: what __str__ writes, and inputs written by hand.
StrInputs ==
    { Str(t) : t \in StrTargets }
      \cup { <<"a", ":", " ", "b", " ">>, <<":", ":", ":", ":">>, <<" ", ":", "a">> }

StrCalls ==
    { [op |-> "str", target |-> t] : t \in StrTargets }
      \cup { [op |-> "from_str", string |-> s] : s \in StrInputs }
      \cup { [op |-> "round_trip", target |-> t] : t \in StrTargets }

InitStr ==
    /\ call \in StrCalls
    /\ last = NotRun
    /\ instances = <<>>
    /\ handlers = <<>>
    /\ sessions = <<>>
    /\ threads = <<>>
    /\ used = {}

\* str(target)
DoStr ==
    /\ call.op = "str" /\ last = NotRun
    /\ last' = [op |-> "str", target |-> call.target, result |-> Str(call.target)]
    /\ UNCHANGED <<call, instances, handlers, sessions, threads, used>>

\* ImpersonateTarget.from_str(string)
DoFromStr ==
    /\ call.op = "from_str" /\ last = NotRun
    /\ last' = [op |-> "from_str", string |-> call.string, result |-> from_str(call.string)]
    /\ UNCHANGED <<call, instances, handlers, sessions, threads, used>>

\* ImpersonateTarget.from_str(str(target))
DoRoundTrip ==
    /\ call.op = "round_trip" /\ last = NotRun
    /\ last' = [op |-> "round_trip", target |-> call.target,
                result |-> from_str(Str(call.target))]
    /\ UNCHANGED <<call, instances, handlers, sessions, threads, used>>

NextStr == DoStr \/ DoFromStr \/ DoRoundTrip

SpecStr == InitStr /\ [][NextStr]_vars

HasColon(field) == field # None /\ \E i \in DOMAIN field : field[i] = Colon

NoColon(target) == \A f \in FieldNames : ~HasColon(target[f])

\* A field that is None or a non-empty string without blanks at its ends.
Canonical(field) == field = None \/ (field # <<>> /\ strip(field) = field)

\* The four fields with None written as empty, cut after the last non-empty one
\* and joined by ':'.
Written(target) ==
    LET parts == <<OrEmpty(target.client), OrEmpty(target.version),
                   OrEmpty(target.os), OrEmpty(target.os_vers)>>
        filled == { i \in 1..4 : parts[i] # <<>> }
        n == IF filled = {} THEN 0 ELSE CHOOSE i \in filled : \A j \in filled : j <= i
    IN  Join(SubSeq(parts, 1, n), 1)

\* C13 as stated: for every target whose field values hold no colon,
\* from_str(str(target)) equals the target, and str(target) is the four fields
\* joined by ':' with None written as empty and the trailing empty segments removed.
C13_AsStated ==
    /\ (last.op = "round_trip" /\ NoColon(last.target)) => last.result = last.target
    /\ (last.op = "str" /\ NoColon(last.target)) => last.result = Written(last.target)

\* C13 amended: for every target whose fields are each None or a non-empty string
\* with no colon and no blank at either end, from_str(str(target)) equals the
\* target; for every target whose field values hold no colon, str(target) is the
\* four fields joined by ':' with None written as empty and the trailing empty
\* segments removed.
C13_RoundTrip ==
    /\ (/\ last.op = "round_trip"
        /\ NoColon(last.target)
        /\ \A f \in FieldNames : Canonical(last.target[f]))
       => last.result = last.target
    /\ (last.op = "str" /\ NoColon(last.target)) => last.result = Written(last.target)

\* C13 witness: a target with a None between two names came back from its string.
C13_Witness ==
    /\ last.op = "round_trip"
    /\ last.target.client = <<"a">> /\ last.target.version = None
    /\ last.target.os = <<"b">> /\ last.target.os_vers = None
    /\ last.result = last.target

(***************************************************************************)
(* The session cache: sends and close() on one handler                     *)
(***************************************************************************)

MaxThreads == 2
MaxSends == 3
MaxCloses == 2

\* A thread that is in no call on the handler.
Idle == [pc |-> "idle"]

\* The cookiejar extension a request may carry: none, a jar of its own that holds
\* cookies, another one, or a jar of its own that holds no cookie yet.
SessionRequests ==
    { [extensions |-> e] :
        e \in {<<>>} \cup { [k \in {"cookiejar"} |-> j] : j \in {JarA, JarB, JarEmpty} } }

\* _clear_instances closes each cached session; the sessions built, afterwards.
CloseInstances(cache, built) ==
    [s \in DOMAIN built |->
        IF \E i \in DOMAIN cache : cache[i].instance = s
        THEN [built[s] EXCEPT !.closed = TRUE]
        ELSE built[s]]

\* A mutation of _clear_instances: only the session stored first is closed and
\* dropped.
ClearInstancesFirstOnly(cache, built) ==
    IF cache = <<>> THEN [cache |-> cache, built |-> built]
    ELSE [cache |-> Tail(cache), built |-> CloseInstances(<<Head(cache)>>, built)]

\* InstanceStoreMixin._clear_instances: every cached session is closed, then the
\* cache is emptied.
ClearInstances(cache, built) ==
    [cache |-> <<>>, built |-> CloseInstances(cache, built)]

InitCache ==
    /\ call = [op |-> "handler", sends |-> 0, closes |-> 0]
    /\ last = NotRun
    /\ instances = <<>>
    /\ handlers = <<>>
    /\ sessions = <<>>
    /\ used = {}

\* One caller: every send and every close() runs to its end before the next.
InitSessions == InitCache /\ threads = [t \in {1} |-> Idle]

\* Several threads call the one handler.
InitThreads == InitCache /\ threads = [t \in 1..MaxThreads |-> Idle]

\* Thread t calls rh.send(request); _send evaluates the key it asks
\* _get_instance for.
StartSend(t, request) ==
    /\ threads[t].pc = "idle"
    /\ call.sends < MaxSends
    /\ threads' = [threads EXCEPT ![t] =
                      [pc |-> "lookup", request |-> request,
                       key |-> SessionKey(TheRequestsRH, request)]]
    /\ call' = [call EXCEPT !.sends = @ + 1]
    /\ last' = [op |-> "start", thread |-> t]
    /\ UNCHANGED <<instances, handlers, sessions, used>>

\* _get_instance, the loop over the cache: the session found, or none.
Lookup(t) ==
    /\ threads[t].pc = "lookup"
    /\ LET i == FindInstance(instances, threads[t].key)
       IN  threads' = [threads EXCEPT ![t] =
                IF i # 0
                THEN [pc |-> "request", request |-> threads[t].request,
                      key |-> threads[t].key, instance |-> instances[i].instance]
                ELSE [pc |-> "create", request |-> threads[t].request,
                      key |-> threads[t].key]]
    /\ last' = [op |-> "lookup", thread |-> t]
    /\ UNCHANGED <<call, instances, handlers, sessions, used>>

\* _get_instance, no session found: instance = self._create_instance(**kwargs)
Create(t) ==
    /\ threads[t].pc = "create"
    /\ sessions' = Append(sessions, CreateInstance(TheRequestsRH, threads[t].key))
    /\ threads' = [threads EXCEPT ![t] =
                      [pc |-> "store", request |-> threads[t].request,
                       key |-> threads[t].key, instance |-> Len(sessions) + 1]]
    /\ last' = [op |-> "create", thread |-> t]
    /\ UNCHANGED <<call, instances, handlers, used>>

\* _get_instance, the new session is stored under the key.
Store(t) ==
    /\ threads[t].pc = "store"
    /\ instances' = Append(instances, [key |-> threads[t].key,
                                       instance |-> threads[t].instance])
    /\ threads' = [threads EXCEPT ![t] = [@ EXCEPT !.pc = "request"]]
    /\ last' = [op |-> "store", thread |-> t]
    /\ UNCHANGED <<call, handlers, sessions, used>>

\* session.request(...) and the rest of _send: the send is over.
Request(t) ==
    /\ threads[t].pc = "request"
    /\ used' = used \cup { [cookiejar |-> Get(threads[t].request.extensions, "cookiejar"),
                            session |-> threads[t].instance] }
    /\ threads' = [threads EXCEPT ![t] = Idle]
    /\ last' = [op |-> "sent", thread |-> t, request |-> threads[t].request,
                session |-> threads[t].instance]
    /\ UNCHANGED <<call, instances, handlers, sessions>>

\* Thread t calls rh.close().
Close(t) ==
    /\ threads[t].pc = "idle"
    /\ call.closes < MaxCloses
    /\ LET cleared == ClearInstances(instances, sessions)
       IN  /\ instances' = cleared.cache
           /\ sessions' = cleared.built
    /\ call' = [call EXCEPT !.closes = @ + 1]
    /\ last' = [op |-> "close", thread |-> t, sends |-> call.sends,
                released |-> { instances[i].instance : i \in DOMAIN instances },
                result |-> "ok"]
    /\ UNCHANGED <<handlers, threads, used>>

NextSessions ==
    \/ \E t \in DOMAIN threads, request \in SessionRequests : StartSend(t, request)
    \/ \E t \in DOMAIN threads : Lookup(t)
    \/ \E t \in DOMAIN threads : Create(t)
    \/ \E t \in DOMAIN threads : Store(t)
    \/ \E t \in DOMAIN threads : Request(t)
    \/ \E t \in DOMAIN threads : Close(t)

SpecSessions == InitSessions /\ [][NextSessions]_vars

SpecThreads == InitThreads /\ [][NextSessions]_vars

\* The cookie store a request carries: its own when it has one, else the handler's.
EffectiveStore(cookiejar) ==
    IF cookiejar # PyNone THEN cookiejar ELSE TheRequestsRH.cookiejar

\* C14: after any sequence of sends through one handler, two requests used the
\* same session exactly when they carried the same effective cookie store, and a
\* request that carries a cookie store of its own, empty or not, used a session
\* that holds that store, never the one of another store or of the handler's default.
C14_SessionPerCookieStore ==
    call.op = "handler" /\ call.closes = 0 =>
        /\ \A a, b \in used :
              (a.session = b.session)
                  <=> (EffectiveStore(a.cookiejar) = EffectiveStore(b.cookiejar))
        /\ \A a \in used :
              a.cookiejar # PyNone => sessions[a.session].cookies = a.cookiejar

\* C15: under any interleaving of sends on one handler, the cache holds at most
\* one session for a key, and every session built and not yet closed is in the
\* cache or in the hands of the thread that is about to store it.
C15_OneSessionPerKey ==
    call.op = "handler" =>
        /\ \A i, j \in DOMAIN instances :
              instances[i].key = instances[j].key => i = j
        /\ \A s \in DOMAIN sessions :
              \/ sessions[s].closed
              \/ \E i \in DOMAIN instances : instances[i].instance = s
              \/ \E t \in DOMAIN threads :
                    threads[t].pc = "store" /\ threads[t].instance = s

\* C16: after close() the session cache is empty and every session that was in
\* it is closed; close() returns normally, also when no request was ever sent and
\* when it was called before.
C16_CloseReleasesEverySession ==
    last.op = "close" =>
        /\ instances = <<>>
        /\ \A s \in last.released : sessions[s].closed
        /\ last.result = "ok"

\* C16 witness: the second close() on the handler released the two sessions
\* cached since the first.
C16_Witness ==
    /\ last.op = "close"
    /\ call.closes = 2
    /\ Cardinality(last.released) = 2
    /\ instances = <<>>
    /\ \A s \in last.released : sessions[s].closed

\* C17: a read of a body that closed before its declared length never returns
\* normally: it raises IncompleteRead whose partial is the number of bytes
\* received and whose expected is the number of bytes declared, whether the
\* library reports the short body directly or inside a protocol error.
C17_ShortReadRaisesIncompleteRead ==
    last.op = "short_read" =>
        /\ last.result = "IncompleteRead"
        /\ last.partial = PyInt(last.received)
        /\ last.expected = PyInt(last.declared)

(***************************************************************************)
(* SocksHTTPConnection._new_conn                                           *)
(***************************************************************************)

MaxAttempts == 2

\* An exception of a connect-and-handshake attempt: its class, the classes it is
\* an instance of, and its text str(e).
ConnException(cls, bases, message) ==
    [type |-> "exception", cls |-> cls, bases |-> bases \cup {cls}, message |-> message]

\* The connected socket an attempt returns.
Socket == [type |-> "socket"]

\* What one attempt to connect to the proxy and to run the SOCKS handshake may
\* end in. socket.timeout is TimeoutError itself on newer Pythons and a class of
\* its own under OSError on older ones; the errors of the SOCKS protocol are
\* subclasses of ProxyError of the socks module, itself an OSError.
AttemptOutcomes ==
    { Socket,
      ConnException("socket.timeout", {"OSError"}, "timed out"),
      ConnException("TimeoutError", {"OSError"}, "timed out"),
      ConnException("SocksProxyError", {"OSError"}, "invalid version"),
      ConnException("Socks5Error", {"SocksProxyError", "OSError"}, "authentication rejected"),
      ConnException("Socks4Error", {"SocksProxyError", "OSError"}, "request rejected"),
      ConnException("ConnectionRefusedError", {"ConnectionError", "OSError"}, "connection refused"),
      ConnException("socket.gaierror", {"OSError"}, "name not known") }

\* What each attempt would end in, were it made: the first, the second, ...
AttemptScripts == [1..MaxAttempts -> AttemptOutcomes]

\* create_connection with the SOCKS socket function: one socket is created, the
\* proxy connected to and the handshake run, once.
CreateConnection(script) == [attempts |-> 1, outcome |-> script[1]]

\* The outcome of _new_conn that raises `kind`.
ConnRaise(kind, message, cause, attempts) ==
    [result |-> kind, message |-> message, cause |-> cause, attempts |-> attempts]

\* A mutation of the except clauses of _new_conn: OSError is caught first.
NewConnExceptOSErrorFirst(e, attempts) ==
    IF "OSError" \in e.bases
    THEN ConnRaise("urllib3.NewConnectionError",
                   [text |-> "Failed to establish a new connection", detail |-> e.message],
                   e, attempts)
    ELSE IF "socket.timeout" \in e.bases \/ "TimeoutError" \in e.bases
    THEN ConnRaise("urllib3.ConnectTimeoutError",
                   [text |-> "Connection timed out", detail |-> "connect timeout"],
                   e, attempts)
    ELSE IF "SocksProxyError" \in e.bases
    THEN ConnRaise("urllib3.ProxyError", [text |-> e.message, detail |-> e.message],
                   e, attempts)
    ELSE ConnRaise(e.cls, [text |-> e.message, detail |-> e.message], PyNone, attempts)

\* The except clauses of _new_conn, in their order, on the exception e.
NewConnExcept(e, attempts) ==
    IF "socket.timeout" \in e.bases \/ "TimeoutError" \in e.bases
    THEN ConnRaise("urllib3.ConnectTimeoutError",
                   [text |-> "Connection timed out", detail |-> "connect timeout"],
                   e, attempts)
    ELSE IF "SocksProxyError" \in e.bases
    THEN ConnRaise("urllib3.ProxyError", [text |-> e.message, detail |-> e.message],
                   e, attempts)
    ELSE IF "OSError" \in e.bases
    THEN ConnRaise("urllib3.NewConnectionError",
                   [text |-> "Failed to establish a new connection", detail |-> e.message],
                   e, attempts)
    ELSE ConnRaise(e.cls, [text |-> e.message, detail |-> e.message], PyNone, attempts)

\* A mutation of _new_conn: a failed attempt is followed by a second one.
NewConnTriesAgain(script) ==
    IF script[1] = Socket
    THEN [result |-> "socket", message |-> PyNone, cause |-> PyNone, attempts |-> 1]
    ELSE IF script[2] = Socket
    THEN [result |-> "socket", message |-> PyNone, cause |-> PyNone, attempts |-> 2]
    ELSE NewConnExcept(script[2], 2)

\* SocksHTTPConnection._new_conn: the socket, or the urllib3 error raised.
NewConn(script) ==
    LET conn == CreateConnection(script)
    IN  IF conn.outcome = Socket
        THEN [result |-> "socket", message |-> PyNone, cause |-> PyNone,
              attempts |-> conn.attempts]
        ELSE NewConnExcept(conn.outcome, conn.attempts)

RECURSIVE Urlopen(_, _, _, _)
\* The connection pool opens a connection for a request of the session: with
\* Retry(False) the first error is raised again, with a retry count left the
\* pool asks for a new connection once more.
Urlopen(max_retries, script, calls, attempts) ==
    LET conn == NewConn(SubSeq(script, attempts + 1, Len(script)))
    IN  IF conn.result = "socket" \/ max_retries.total = FALSE
           \/ max_retries.total <= calls \/ attempts + conn.attempts >= Len(script)
        THEN [result |-> conn.result, cause |-> conn.cause,
              new_conn_calls |-> calls + 1, attempts |-> attempts + conn.attempts]
        ELSE Urlopen(max_retries, script, calls + 1, attempts + conn.attempts)

InitSocks ==
    /\ call \in { [op |-> o, script |-> s] :
                    o \in {"new_conn", "socks_request"}, s \in AttemptScripts }
    /\ last = NotRun
    /\ instances = <<>>
    /\ handlers = <<>>
    /\ sessions = <<>>
    /\ threads = <<>>
    /\ used = {}

\* conn._new_conn()
DoNewConn ==
    /\ call.op = "new_conn" /\ last = NotRun
    /\ LET conn == NewConn(call.script)
       IN  last' = [op |-> "new_conn", script |-> call.script,
                    raised |-> IF call.script[1] = Socket THEN PyNone ELSE call.script[1],
                    result |-> conn.result, message |-> conn.message,
                    cause |-> conn.cause, attempts |-> conn.attempts]
    /\ UNCHANGED <<call, instances, handlers, sessions, threads, used>>

\* The handler sends a first request through a SOCKS proxy: the session is built
\* and its connection pool opens the connection.
DoSocksRequest ==
    /\ call.op = "socks_request" /\ last = NotRun
    /\ LET got == GetInstance(TheRequestsRH, instances, sessions, TheRequestsRH.cookiejar)
           opened == Urlopen(got.built[got.instance].max_retries, call.script, 0, 0)
       IN  /\ instances' = got.cache
           /\ sessions' = got.built
           /\ last' = [op |-> "socks_request", script |-> call.script,
                       session |-> got.instance,
                       result |-> opened.result, cause |-> opened.cause,
                       new_conn_calls |-> opened.new_conn_calls,
                       attempts |-> opened.attempts]
    /\ UNCHANGED <<call, handlers, threads, used>>

NextSocks == DoNewConn \/ DoSocksRequest

SpecSocks == InitSocks /\ [][NextSocks]_vars

\* C18: a failed connection through a SOCKS proxy is reported as exactly one of
\* three errors: a timeout as the connect-timeout error, an error of the SOCKS
\* protocol as the proxy error, any other socket failure of the OS as the
\* new-connection error that carries the text of the OS error; a timeout is
\* never reported as a proxy error or a new-connection error.
C18_SocksFailureClassification ==
    (last.op = "new_conn" /\ last.raised # PyNone) =>
        LET e == last.raised
            timeout == e.cls \in {"socket.timeout", "TimeoutError"}
            protocol == e.cls \in {"SocksProxyError", "Socks4Error", "Socks5Error"}
        IN  /\ last.result \in {"urllib3.ConnectTimeoutError", "urllib3.ProxyError",
                                "urllib3.NewConnectionError"}
            /\ timeout <=> last.result = "urllib3.ConnectTimeoutError"
            /\ protocol <=> last.result = "urllib3.ProxyError"
            /\ (~timeout /\ ~protocol) <=>
                  (last.result = "urllib3.NewConnectionError"
                     /\ last.message.detail = e.message)
            /\ last.cause = e

\* C18 witness: a timeout of the handshake was reported as the connect-timeout
\* error.
C18_Witness ==
    /\ last.op = "new_conn"
    /\ last.raised # PyNone
    /\ last.raised.cls = "socket.timeout"
    /\ last.result = "urllib3.ConnectTimeoutError"

\* C19: one call that opens a connection through a SOCKS proxy makes exactly one
\* connect-and-handshake attempt and reports what that attempt ended in, also
\* when a second attempt would have succeeded; the session the handler builds has
\* retries disabled, so a request asks for the connection once.
C19_SingleAttempt ==
    /\ last.op = "new_conn" =>
          /\ last.attempts = 1
          /\ (last.result = "socket") <=> (last.script[1] = Socket)
    /\ last.op = "socks_request" =>
          /\ sessions[last.session].max_retries.total = FALSE
          /\ last.new_conn_calls = 1
          /\ last.attempts = 1
          /\ (last.result = "socket") <=> (last.script[1] = Socket)

\* C19 witness: the first attempt failed, a second one would have succeeded, and
\* the call raised after the one attempt.
C19_Witness ==
    /\ last.op = "new_conn"
    /\ last.script[1] # Socket
    /\ last.script[2] = Socket
    /\ last.attempts = 1
    /\ last.result = "urllib3.NewConnectionError"

(***************************************************************************)
(* The headers of an impersonated request                                  *)
(***************************************************************************)

\* A header name with its letters in lower case.
LowerCase(name) == [i \in DOMAIN name |-> lower(name[i])]

\* The name is one of the blacklist, whatever the case of its letters.
IsBlacklisted(name) == \E b \in Blacklisted : LowerCase(b) = LowerCase(name)

\* C20: when the request's impersonate extension or the handler's default target
\* is not None, the headers the handler produces hold none of the blacklisted
\* names in any letter case, and hold every other merged header with its value;
\* when both are None the merged headers are produced whole.
C20_ImpersonateHeaderPolicy ==
    last.op = "headers" =>
        LET merged == MergeHeaders(last.rh_headers, last.request.headers)
            active == \/ Get(last.request.extensions, "impersonate") # PyNone
                      \/ last.rh.impersonate # PyNone
        IN  IF active
            THEN /\ \A name \in DOMAIN last.result : ~IsBlacklisted(name)
                 /\ \A i \in DOMAIN last.raw :
                       IsBlacklisted(last.raw[i][1]) =>
                          \A name \in DOMAIN last.result :
                              LowerCase(name) # LowerCase(last.raw[i][1])
                 /\ \A name \in DOMAIN merged :
                       ~IsBlacklisted(name) =>
                          name \in DOMAIN last.result /\ last.result[name] = merged[name]
                 /\ DOMAIN last.result \subseteq DOMAIN merged
            ELSE last.result = merged

\* C20 witness: the request asks for a target, the caller wrote user-agent in
\* lower case next to a header of its own, and only the latter was kept.
C20_Witness ==
    /\ last.op = "headers"
    /\ Get(last.request.extensions, "impersonate") = ImpersonateTarget(Chrome, None, None, None)
    /\ last.rh.impersonate = PyNone
    /\ \E i \in DOMAIN last.raw :
          last.raw[i][1] = <<"u", "s", "e", "r", "-", "a", "g", "e", "n", "t">>
    /\ \E i \in DOMAIN last.raw : last.raw[i][1] = <<"X", "-", "F", "o", "o">>
    /\ last.rh_headers = <<>>
    /\ DOMAIN last.result = {<<"X", "-", "F", "o", "o">>}


(***************************************************************************)
(* The caller's request is left as it was                                  *)
(***************************************************************************)

\* The calls whose effect on the caller's request is observed: validate on
\* every handler, _get_impersonate_headers, and send where the transport raises
\* at once or answers in one hop.
FrameCalls ==
    ValidateCalls \cup HeaderCalls \cup
    { [op |-> "send", request |-> r, env |-> v] :
        r \in SendRequests,
        v \in { e \in SendEnvs : e.raises # PyNone \/ Len(e.hops) = 1 } }

InitFrame ==
    /\ call \in FrameCalls
    /\ last = NotRun
    /\ instances = <<>>
    /\ handlers = <<>>
    /\ sessions = <<>>
    /\ threads = <<>>
    /\ used = {}

NextFrame == DoValidate \/ DoHeaders \/ DoSend

SpecFrame == InitFrame /\ [][NextFrame]_vars

\* C21: after validate, _get_impersonate_headers or send has returned or
\* raised, the caller's request is what it was before the call: the same
\* method, url parts, headers, data and extensions, the cookiejar and timeout
\* keys and the blacklisted headers included.
C21_RequestLeftUnchanged ==
    (last # NotRun /\ last.op \in {"validate", "headers", "send"})
        => last.request_after = last.request

\* A send that raised, on a request carrying a cookiejar, a timeout and a
\* blacklisted header.
C21_Witness ==
    /\ last # NotRun /\ last.op = "send"
    /\ last.result # "Response"
    /\ {"cookiejar", "timeout"} \subseteq DOMAIN last.request.extensions
    /\ title(<<"u", "s", "e", "r", "-", "a", "g", "e", "n", "t">>) \in DOMAIN last.request.headers
    /\ last.request_after = last.request


(***************************************************************************)
(* UnsupportedRequest at the caller of the director                        *)
(***************************************************************************)

\* C22: when validate raises for every registered handler, or none is
\* registered, the dispatch fails with UnsupportedRequest, no handler is
\* selected, no session is built and nothing is sent.
C22_NoEligibleHandlerFailsBeforeIO ==
    (last.op = "dispatch" /\ Validating(last.request) = {}) =>
        /\ last.result = "UnsupportedRequest"
        /\ last.selected = 0
        /\ last.io = 0
        /\ instances = <<>> /\ sessions = <<>>

\* C22 witness: two handlers are registered, validate raises for both, and the
\* dispatch failed with UnsupportedRequest and no I/O.
C22_Witness ==
    /\ last.op = "dispatch"
    /\ Len(handlers) = 2
    /\ Validating(last.request) = {}
    /\ last.result = "UnsupportedRequest"
    /\ last.io = 0

\* C23: when validate returns for at least one registered handler, the caller
\* does not get UnsupportedRequest: the handlers whose validate raises are
\* skipped and the request is sent by a handler whose validate returned.
C23_ValidationFailureNeverReachesCaller ==
    (last.op = "dispatch" /\ Validating(last.request) # {}) =>
        /\ last.result # "UnsupportedRequest"
        /\ last.selected \in Validating(last.request)
        /\ last.io = 1

\* C23 witness: validate raised for the handler registered first, and the
\* request was sent by the one registered second.
C23_Witness ==
    /\ last.op = "dispatch"
    /\ Len(handlers) = 2
    /\ Validating(last.request) = {2}
    /\ last.selected = 2
    /\ last.result = "sent"


(***************************************************************************)
(* Redirects: the body and the substituted status                          *)
(***************************************************************************)

\* C24: on every followed redirect the body and the body headers are carried
\* to the next request only when the server's status is 307 or 308; after a
\* 301, 302 or 303 the next request has neither, whatever the method.
C24_BodyCarriedOnlyOn307Or308 ==
    Answered =>
        \A i \in 1..(Len(last.sent) - 1) :
            last.env.hops[i].status_code \notin {307, 308}
                => /\ last.sent[i + 1].body = PyNone
                   /\ last.sent[i + 1].content_headers = FALSE


(***************************************************************************)
(* The except clauses of _send: the most specific kind first               *)
(***************************************************************************)

\* The last send ended with session.request raising before any response.
Failed == last.op = "send" /\ last.env.raises # PyNone

IsSSL(e) == "requests.SSLError" \in e.bases
IsProxy(e) == "requests.ProxyError" \in e.bases
IsConnection(e) == e.bases \cap {"requests.ConnectionError", "requests.Timeout"} # {}

\* C25: an exception of session.request that is an SSLError is raised as
\* CertificateVerifyError or SSLError, a ProxyError as ProxyError, any other
\* ConnectionError or Timeout as TransportError, and RequestError is raised only
\* for a RequestException that is none of these; TransportError is never raised
\* for an exception that is an SSLError or a ProxyError.
C25_MostSpecificKindFirst ==
    Failed =>
        LET e == last.env.raises
        IN  /\ IsSSL(e) => last.result \in {"CertificateVerifyError", "SSLError"}
            /\ (IsProxy(e) /\ ~IsSSL(e)) => last.result = "ProxyError"
            /\ (IsConnection(e) /\ ~IsSSL(e) /\ ~IsProxy(e))
                  => last.result = "TransportError"
            /\ last.result = "TransportError" => (~IsSSL(e) /\ ~IsProxy(e))
            /\ last.result = "RequestError"
                  => /\ "requests.RequestException" \in e.bases
                     /\ ~IsSSL(e) /\ ~IsProxy(e) /\ ~IsConnection(e)

\* C25 witness: a requests ProxyError, which is a ConnectionError too, was
\* raised as ProxyError.
C25_Witness ==
    /\ Failed
    /\ last.env.raises.cls = "requests.ProxyError"
    /\ "requests.ConnectionError" \in last.env.raises.bases
    /\ last.result = "ProxyError"
    /\ last.cause = last.env.raises

\* C26: an SSLError of session.request is raised as CertificateVerifyError
\* exactly when its text holds CERTIFICATE_VERIFY_FAILED and as SSLError
\* otherwise; no other exception is raised as CertificateVerifyError, whatever
\* its text.
C26_CertificateVerifyByMarker ==
    Failed =>
        LET e == last.env.raises
        IN  /\ IsSSL(e) => /\ last.result = "CertificateVerifyError" <=> e.marker
                           /\ last.result = "SSLError" <=> ~e.marker
            /\ last.result = "CertificateVerifyError" => IsSSL(e)

\* C26 witness: an SSLError without the marker was raised as SSLError.
C26_Witness ==
    /\ Failed
    /\ IsSSL(last.env.raises)
    /\ ~last.env.raises.marker
    /\ last.result = "SSLError"


(***************************************************************************)
(* Resolution and specificity                                              *)
(***************************************************************************)

\* The supported targets of the handler are declared from the most specific
\* to the least specific.
DeclaredMostSpecificFirst(rh) ==
    \A i, j \in 1..Len(rh.supported) :
        i <= j => Specificity(rh.supported[i]) >= Specificity(rh.supported[j])

\* C27 as stated: whatever the declaration order, the target resolution returns
\* has at least as many fields given as every other supported target the
\* requested target is contained in.
C27_AsStated ==
    (last.op = "resolve" /\ last.target # PyNone) =>
        \A j \in Matches(last.rh, last.target) :
            /\ last.result # PyNone
            /\ Specificity(last.result) >= Specificity(last.rh.supported[j])

\* C27 as amended: resolution returns a supported target the requested target
\* is contained in, and when the map declares its targets from the most to the
\* least specific that target has at least as many fields given as every other
\* supported target the requested target is contained in.
C27_MostSpecificWhenDeclaredFirst ==
    (last.op = "resolve" /\ last.target # PyNone
        /\ Matches(last.rh, last.target) # {}) =>
        /\ \E i \in Matches(last.rh, last.target) : last.result = last.rh.supported[i]
        /\ DeclaredMostSpecificFirst(last.rh) =>
              \A j \in Matches(last.rh, last.target) :
                  Specificity(last.result) >= Specificity(last.rh.supported[j])

\* C27 witness: the map declares a target with client and version before one
\* with the client alone, the requested target is in both, and the one with
\* client and version was returned.
C27_Witness ==
    /\ last.op = "resolve"
    /\ last.target # PyNone
    /\ Len(last.rh.supported) = 2
    /\ Matches(last.rh, last.target) = {1, 2}
    /\ Specificity(last.rh.supported[1]) = 2
    /\ Specificity(last.rh.supported[2]) = 1
    /\ last.result = last.rh.supported[1]


(***************************************************************************)
(* The timeout handed to the transport                                     *)
(***************************************************************************)

\* C28: the timeout session.request is given is the value of the request's
\* timeout extension whenever the request carries one, 0 included, and the
\* handler's default only when the request carries none.
C28_TimeoutExtensionApplied ==
    last.op = "send" =>
        IF "timeout" \in DOMAIN last.request.extensions
        THEN last.timeout = last.request.extensions["timeout"].value
        ELSE last.timeout = TheRequestsRH.timeout.value


(***************************************************************************)
(* One exchange of session.request, hook by hook                           *)
(***************************************************************************)

ExchangeCalls ==
    { [op |-> "exchange", request |-> r, env |-> [raises |-> PyNone, hops |-> h]] :
        r \in { q \in SendRequests : q.extensions = <<>> }, h \in HopScripts }

InitExchange ==
    /\ call \in ExchangeCalls
    /\ last = NotRun
    /\ instances = <<>>
    /\ handlers = <<>>
    /\ sessions = <<>>
    /\ threads = <<>>
    /\ used = {}

\* session.request sends the prepared request and the server gives its first
\* answer.
SendFirst ==
    /\ call.op = "exchange" /\ last = NotRun
    /\ last' = [op |-> "exchange", pc |-> "answered", i |-> 1,
                prepared |-> PreparedRequest(call.request.method, call.request.data),
                sent |-> <<PreparedRequest(call.request.method, call.request.data)>>,
                response |-> call.env.hops[1], history |-> <<>>,
                outcome |-> PyNone]
    /\ UNCHANGED <<call, instances, handlers, sessions, threads, used>>

\* resolve_redirects calls rebuild_method for an answer that is a redirect
\* within the limit.
RebuildMethodStep ==
    /\ last # NotRun /\ last.op = "exchange" /\ last.pc = "answered"
    /\ Followed(last.response) /\ last.i - 1 < MaxRedirects
    /\ LET rm == RebuildMethod(last.prepared, last.response)
       IN  last' = [last EXCEPT !.pc = "method_rebuilt", !.prepared = rm.request,
                                !.response = rm.response]
    /\ UNCHANGED <<call, instances, handlers, sessions, threads, used>>

\* resolve_redirects removes the body and its headers unless the status it
\* reads is 307 or 308.
PurgeStep ==
    /\ last # NotRun /\ last.op = "exchange" /\ last.pc = "method_rebuilt"
    /\ last' = [last EXCEPT
                  !.pc = "purged",
                  !.prepared = IF last.response.status_code \notin {307, 308}
                               THEN [last.prepared EXCEPT !.body = PyNone,
                                                          !.content_headers = FALSE]
                               ELSE last.prepared]
    /\ UNCHANGED <<call, instances, handlers, sessions, threads, used>>

\* resolve_redirects calls rebuild_auth.
RebuildAuthStep ==
    /\ last # NotRun /\ last.op = "exchange" /\ last.pc = "purged"
    /\ LET ra == RebuildAuth(last.prepared, last.response)
       IN  last' = [last EXCEPT !.pc = "auth_rebuilt", !.prepared = ra.request,
                                !.response = ra.response]
    /\ UNCHANGED <<call, instances, handlers, sessions, threads, used>>

\* The rebuilt request is sent, the redirect goes to the history of the
\* exchange, and the server gives its next answer.
SendNext ==
    /\ last # NotRun /\ last.op = "exchange" /\ last.pc = "auth_rebuilt"
    /\ last' = [last EXCEPT !.pc = "answered", !.i = last.i + 1,
                            !.sent = Append(last.sent, last.prepared),
                            !.history = Append(last.history, last.response),
                            !.response = call.env.hops[last.i + 1]]
    /\ UNCHANGED <<call, instances, handlers, sessions, threads, used>>

\* session.request returns the answer that is no redirect, or raises
\* TooManyRedirects at a redirect beyond the limit, and _send hands its
\* outcome to the caller.
Return ==
    /\ last # NotRun /\ last.op = "exchange" /\ last.pc = "answered"
    /\ ~(Followed(last.response) /\ last.i - 1 < MaxRedirects)
    /\ last' = [last EXCEPT
                  !.pc = "returned",
                  !.outcome = IF Followed(last.response)
                              THEN SendExcept(TooManyRedirects(last.response))
                              ELSE StatusCheck(RequestsResponseAdapter(last.response),
                                               FALSE)]
    /\ UNCHANGED <<call, instances, handlers, sessions, threads, used>>

NextExchange ==
    SendFirst \/ RebuildMethodStep \/ PurgeStep \/ RebuildAuthStep \/ SendNext \/ Return

SpecExchange == InitExchange /\ [][NextExchange]_vars

\* The exchange of the last call is at a step after its first answer.
InExchange == last # NotRun /\ last.op = "exchange"

\* The response has no _real_status_code attribute and its status is the one
\* the server sent at hop k.
AsServerSent(response, k) ==
    /\ response.real_status_code = <<>>
    /\ response.status_code = call.env.hops[k].status_code

\* C29: a response carries the substituted status 308 only between
\* rebuild_method and the rebuild_auth that follows it, and only when
\* rebuild_method left the method as it was; once rebuild_auth has run the
\* status is the one the server sent and the saved status is gone, and the
\* response and the history the caller is handed carry the server's statuses.
C29_SubstitutedStatusIsTemporary ==
    InExchange =>
        /\ last.pc \in {"method_rebuilt", "purged"} =>
              IF last.response.real_status_code # <<>>
              THEN /\ last.prepared.method = last.sent[last.i].method
                   /\ last.response.status_code = 308
                   /\ last.response.real_status_code
                         = <<call.env.hops[last.i].status_code>>
              ELSE last.response.status_code = call.env.hops[last.i].status_code
        /\ last.pc \in {"answered", "auth_rebuilt", "returned"} =>
              AsServerSent(last.response, last.i)
        /\ \A k \in 1..Len(last.history) : AsServerSent(last.history[k], k)
        /\ last.pc = "returned" =>
              /\ AsServerSent(last.outcome.response.requests_response, last.i)
              /\ last.outcome.response.status = call.env.hops[last.i].status_code

\* C29 witness: a GET answered with 301 was resent as GET, so its status was
\* substituted on the way, and the caller was handed the final response with
\* the 301 in its history.
C29_Witness ==
    /\ InExchange
    /\ last.pc = "returned"
    /\ Len(last.history) = 1
    /\ call.env.hops[1].status_code = 301
    /\ last.sent[1].method = "GET" /\ last.sent[2].method = "GET"
    /\ last.history[1].status_code = 301
    /\ last.history[1].real_status_code = <<>>
    /\ last.outcome.result = "Response"


(***************************************************************************)
(* Containment is symmetric                                                *)
(***************************************************************************)

\* Every field the supported target gives is given with the same value by the
\* requested target: the requested target is at least as specific.
Generalises(supported, target) ==
    \A f \in FieldNames : supported[f] = None \/ supported[f] = target[f]

\* C30: `A in B` and `B in A` have the same value for all targets A and B; a
\* requested target is contained in every supported target that gives a part of
\* its fields only, so resolution of it succeeds, and returns that supported
\* target when no supported target declared before it contains the requested one.
C30_ContainmentSymmetric ==
    /\ (last.op = "contains" /\ last.target \in Targets)
          => last.result = Contains(last.target, last.self)
    /\ (last.op = "resolve" /\ last.target # PyNone) =>
          \A i \in 1..Len(last.rh.supported) :
              Generalises(last.rh.supported[i], last.target) =>
                  /\ i \in Matches(last.rh, last.target)
                  /\ last.result # PyNone
                  /\ (\A j \in 1..(i - 1) : j \notin Matches(last.rh, last.target))
                        => last.result = last.rh.supported[i]
                  /\ is_supported_target(last.rh, last.target) = "True"
                  /\ CheckImpersonateTarget(last.rh, last.target) = "ok"

\* C30 witness: a requested target that gives client and version was resolved
\* to a supported target that gives the client alone.
C30_Witness ==
    /\ last.op = "resolve"
    /\ last.target # PyNone
    /\ last.target.client # None /\ last.target.version # None
    /\ last.result # PyNone
    /\ last.result.client = last.target.client
    /\ Specificity(last.result) = 1
    /\ Specificity(last.target) = 2

====
